---- MODULE Spec2Model ----
(***************************************************************************)
(* Behavioural model of the C2 beacon detector.                            *)
(*                                                                         *)
(* Two generations of the pipeline live side by side in the repository:    *)
(*   v2.0   analyzeConnections -> Utils.validateConnections ->             *)
(*          Analyzer.extractFeatures (snake_case features) ->              *)
(*          ThreatIntel.checkConnections -> Detector.detect                *)
(*   v2.1.1 C2DetectorApp.analyzeData -> Utils.validateJSON ->             *)
(*          Analyzer.extractFeatures (camelCase features) ->               *)
(*          Detector.analyze (ThreatIntel.lookupIP, MLDetector.predict)    *)
(*                                                                         *)
(* Numbers.  JavaScript numbers with a fractional part are kept in fixed   *)
(* point, in thousandths: a periodicity of 0.80 is 800, a mean interval of *)
(* 60 s is 60000 (the v2.1.1 extractor keeps intervals in milliseconds,    *)
(* which is the same integer).  duration_minutes and durationHours are in  *)
(* thousandths of a minute / of an hour, counts are plain integers.  ML    *)
(* model scores are in thousandths, the ensemble score in ten-thousandths. *)
(***************************************************************************)
EXTENDS Integers, Sequences, FiniteSets, TLC

VARIABLES
    engine,        \* which entry point the scoring run uses: "detect" | "analyze"
    features,      \* the feature vector handed to the detection engine
    matches,       \* the threat-intel matches handed to the detection engine
    result,        \* outcome of the run: none, a DetectionResult, or a thrown error
    normalization, \* MLDetector.normalization (v2.1 ML module)
    predictions,   \* the MLDetector.predict calls made so far: <<[features, output]>>
    connections,   \* the parsed connection list handed to the analysis
    intel,         \* ThreatIntel: customRules, stats.status, config.maxIPs, and what
                   \* a request to the feed does
    history,       \* HistoryManager.history, newest first
    lookups,       \* the addresses submitted to a threat-intel lookup, in order
    storage,       \* the list stored under localStorage 'c2detector_history'; in the
                   \* custom-rule runs the one under 'c2detector_custom_rules'
    now,           \* the clock: Date.now()
    cache,         \* ThreatIntel.cache (v2.1.1): address -> <<>> or [data, timestamp]
    pending,       \* the lookups of the analysis in progress, one record per address
    answers,       \* per address, the last answer of the feed with a hit or no hit
    app,           \* the state shared by the runs: current analysis, file name, connections
    runs,          \* per started analysis: where it stands and what it was given
    stack          \* the saveHistory calls that have not returned

vars == <<engine, features, matches, result, normalization, predictions,
          connections, intel, history, lookups, storage, now, cache, pending, answers,
          app, runs, stack>>

scoreVars == <<engine, features, matches, result>>

mlVars == <<normalization, predictions>>

inputVars == <<connections, intel, history, lookups, storage, now>>

runVars == <<app, runs, stack>>

asyncVars == <<cache, pending, answers, app, runs, stack>>

\* No lookup has been made and no analysis started: new Map(), no request in
\* flight, currentAnalysis null, no call in progress.
NoAsync ==
    /\ cache = <<>>
    /\ pending = <<>>
    /\ answers = <<>>
    /\ app = <<>>
    /\ runs = <<>>
    /\ stack = <<>>

(***************************************************************************)
(* JavaScript values                                                       *)
(***************************************************************************)

\* Number.NaN: every ordered comparison with it is false.
NaN == -999999999

\* JS `a > b`, `a >= b`, `a < b`, `a <= b` on numbers.
Gt(a, b) == a # NaN /\ b # NaN /\ a > b

Ge(a, b) == a # NaN /\ b # NaN /\ a >= b

Lt(a, b) == a # NaN /\ b # NaN /\ a < b

Le(a, b) == a # NaN /\ b # NaN /\ a <= b

\* Property read: a missing property reads as undefined.
Has(r, k) == k \in DOMAIN r

RECURSIVE SumSeq(_)
\* arr.reduce((a, b) => a + b, 0)
SumSeq(s) == IF s = <<>> THEN 0 ELSE Head(s) + SumSeq(Tail(s))

RECURSIVE MaxSeq(_)
MaxSeq(s) == IF Len(s) = 1 THEN s[1]
             ELSE LET m == MaxSeq(Tail(s)) IN IF Head(s) > m THEN Head(s) ELSE m

\* Math.max(0, Math.min(100, score))
Clamp100(score) == IF score < 0 THEN 0 ELSE IF score > 100 THEN 100 ELSE score

NoResult == [status |-> "none"]

\* The clock reading at the start of a run; entries made earlier carry
\* smaller timestamps.
StartTime == 300

\* ThreatIntel.customRules empty.  The feed lists none of the addresses.
NoIntel == [customRules |-> <<>>, status |-> "online", maxIPs |-> 20, feed |-> "no_hit"]

RECURSIVE ISqrt(_, _, _)
\* floor(Math.sqrt(x)) by bisection on lo..hi.
ISqrt(x, lo, hi) ==
    IF lo >= hi THEN lo
    ELSE LET mid == (lo + hi + 1) \div 2 IN
         IF mid * mid <= x THEN ISqrt(x, mid, hi) ELSE ISqrt(x, lo, mid - 1)

RECURSIVE SortAscending(_)
\* [...arr].sort((a, b) => a - b)
SortAscending(s) ==
    IF Len(s) <= 1 THEN s
    ELSE LET m == CHOOSE i \in 1..Len(s) : \A k \in 1..Len(s) : s[i] <= s[k] IN
         <<s[m]>> \o SortAscending([k \in 1..(Len(s) - 1) |-> IF k < m THEN s[k] ELSE s[k + 1]])

\* A timestamp is a JavaScript number that can exceed the integers of the
\* checker (epoch milliseconds are about 1.7 * 10^12): <<k, u>> stands for
\* k * 1000 + u with u in 0..999.  NoTime is 0, the falsy number.
NoTime == <<0, 0>>

\* a - b for two timestamps less than about 2 * 10^9 apart
TimeDiff(a, b) == (a[1] - b[1]) * 1000 + (a[2] - b[2])

RECURSIVE SortTimes(_)
\* timestamps.sort((a, b) => a - b)
SortTimes(s) ==
    IF Len(s) <= 1 THEN s
    ELSE LET m == CHOOSE i \in 1..Len(s) : \A k \in 1..Len(s) : TimeDiff(s[i], s[k]) <= 0 IN
         <<s[m]>> \o SortTimes([k \in 1..(Len(s) - 1) |-> IF k < m THEN s[k] ELSE s[k + 1]])

\* new Date(ts).getHours() for a timestamp in milliseconds, in UTC
HourOf(ts) == (((ts[1] % 86400) * 1000 + ts[2]) \div 3600000) % 24

\* std / mean of a non-empty list with a positive sum, in thousandths
\* (resolution 0.01): sqrt(n * sum(x^2) - sum(x)^2) / sum(x).
StdOverMean(xs) ==
    LET n == Len(xs)
        S == SumSeq(xs)
        Q == SumSeq([i \in 1..n |-> xs[i] * xs[i]]) IN
    ISqrt(((n * Q - S * S) * 10000) \div (S * S), 0, 1000) * 10

\* -(k/n) * log2(k/n) in thousandths, for n up to 5.
PLog2 ==
    <<<<0>>, <<500, 0>>, <<528, 390, 0>>, <<500, 500, 311, 0>>, <<464, 529, 442, 258, 0>>>>

\* Shannon entropy (bits, thousandths) of the value counts of a list.
EntropyOf(xs) ==
    LET n == Len(xs)
        count(v) == Cardinality({i \in 1..n : xs[i] = v}) IN
    IF n = 0 THEN 0
    ELSE LET vals == {xs[i] : i \in 1..n}
             RECURSIVE Acc(_)
             Acc(vs) == IF vs = {} THEN 0
                        ELSE LET v == CHOOSE w \in vs : TRUE IN
                             PLog2[n][count(v)] + Acc(vs \ {v}) IN
         Acc(vals)

(***************************************************************************)
(* Detector.detect (v2.0 engine)                                           *)
(***************************************************************************)

\* Math.max(...threatIntelMatches.map(m => m.confidence_level)):
\* an element without that property maps to undefined, and the maximum is NaN.
DetectHighestConfidence(ms) ==
    IF \E i \in 1..Len(ms) : ~Has(ms[i], "confidence_level") THEN NaN
    ELSE MaxSeq([i \in 1..Len(ms) |-> ms[i].confidence_level])

\* Threat-intel block: +45 base, then +25 or +15.
DetectThreatIntel(ms) ==
    IF Len(ms) > 0
    THEN IF Ge(DetectHighestConfidence(ms), 75)
         THEN <<[reason |-> "ti_high_confidence", delta |-> 45 + 25]>>
         ELSE <<[reason |-> "ti_match", delta |-> 45 + 15]>>
    ELSE <<>>

DetectPeriodicity(f) ==
    IF Gt(f.periodicity, 800) THEN <<[reason |-> "extreme_periodicity", delta |-> 35]>>
    ELSE IF Gt(f.periodicity, 700) THEN <<[reason |-> "strong_periodicity", delta |-> 25]>>
    ELSE IF Gt(f.periodicity, 600) THEN <<[reason |-> "notable_periodicity", delta |-> 15]>>
    ELSE <<>>

DetectJitter(f) ==
    IF Lt(f.jitter, 80) THEN <<[reason |-> "extremely_low_jitter", delta |-> 30]>>
    ELSE IF Lt(f.jitter, 150) THEN <<[reason |-> "low_jitter", delta |-> 20]>>
    ELSE IF Lt(f.jitter, 250) THEN <<[reason |-> "consistent_timing", delta |-> 10]>>
    ELSE <<>>

DetectPayload(f) ==
    IF Gt(f.bytes_consistency, 900) THEN <<[reason |-> "very_consistent_payload", delta |-> 20]>>
    ELSE IF Gt(f.bytes_consistency, 800) THEN <<[reason |-> "consistent_payload", delta |-> 15]>>
    ELSE <<>>

\* Interval range and the two framework signatures; mean_interval is in seconds.
DetectInterval(f) ==
    (IF Ge(f.mean_interval, 30000) /\ Le(f.mean_interval, 300000)
     THEN <<[reason |-> "interval_in_c2_range", delta |-> 15]>> ELSE <<>>)
    \o (IF Ge(f.mean_interval, 58000) /\ Le(f.mean_interval, 62000) /\ Lt(f.jitter, 100)
        THEN <<[reason |-> "cobalt_strike_signature", delta |-> 20]>> ELSE <<>>)
    \o (IF Ge(f.mean_interval, 115000) /\ Le(f.mean_interval, 125000) /\ Lt(f.jitter, 120)
        THEN <<[reason |-> "metasploit_signature", delta |-> 18]>> ELSE <<>>)

DetectPersistence(f) ==
    IF Gt(f.duration_minutes, 120000) /\ f.connection_count > 50
    THEN <<[reason |-> "sustained_beaconing", delta |-> 15]>>
    ELSE IF Gt(f.duration_minutes, 60000) /\ f.connection_count > 30
    THEN <<[reason |-> "extended_pattern", delta |-> 12]>>
    ELSE <<>>

DetectNetwork(f) ==
    (IF f.unique_dest_ips = 1 /\ f.connection_count > 20
     THEN <<[reason |-> "single_destination_ip", delta |-> 12]>> ELSE <<>>)
    \o (IF Lt(f.port_entropy, 500) /\ f.unique_dest_ports = 1
        THEN <<[reason |-> "single_destination_port", delta |-> 10]>> ELSE <<>>)

DetectEntropy(f) ==
    IF Lt(f.entropy, 1500) /\ f.connection_count > 20
    THEN <<[reason |-> "low_entropy", delta |-> 12]>> ELSE <<>>

DetectNight(f) ==
    IF Gt(f.night_ratio, 700) /\ f.connection_count > 30
    THEN <<[reason |-> "night_activity", delta |-> 8]>> ELSE <<>>

\* Benign indicators: the high-variability test is the else-branch of the
\* short-interval test; the other two are independent.
DetectBenign(f) ==
    (IF Lt(f.mean_interval, 3000)
     THEN <<[reason |-> "benign_short_interval", delta |-> -25]>>
     ELSE IF Gt(f.cv_interval, 700)
     THEN <<[reason |-> "benign_high_variability", delta |-> -20]>>
     ELSE <<>>)
    \o (IF f.unique_dest_ips > 10
        THEN <<[reason |-> "benign_many_destinations", delta |-> -15]>> ELSE <<>>)
    \o (IF Gt(f.time_diversity, 700)
        THEN <<[reason |-> "benign_time_diversity", delta |-> -10]>> ELSE <<>>)

\* The scored reasons in evaluation order.
DetectReasons(f, ms) ==
    DetectThreatIntel(ms) \o DetectPeriodicity(f) \o DetectJitter(f)
    \o DetectPayload(f) \o DetectInterval(f) \o DetectPersistence(f)
    \o DetectNetwork(f) \o DetectEntropy(f) \o DetectNight(f) \o DetectBenign(f)

\* `score`, accumulated with += / -= over the triggered blocks.
DetectRawScore(f, ms) ==
    LET rs == DetectReasons(f, ms) IN SumSeq([i \in 1..Len(rs) |-> rs[i].delta])

\* const finalScore = Math.max(0, Math.min(100, score))
DetectFinalScore(f, ms) == Clamp100(DetectRawScore(f, ms))

\* The classification cascade on finalScore.
DetectTier(finalScore) ==
    IF finalScore >= 80
    THEN [classification |-> "CRITICAL", severity |-> "critical",
          recommendation |-> "IMMEDIATE ACTION"]
    ELSE IF finalScore >= 65
    THEN [classification |-> "SUSPICIOUS", severity |-> "high",
          recommendation |-> "INVESTIGATE IMMEDIATELY"]
    ELSE IF finalScore >= 45
    THEN [classification |-> "MONITOR", severity |-> "medium",
          recommendation |-> "ENHANCED MONITORING"]
    ELSE [classification |-> "BENIGN", severity |-> "info",
          recommendation |-> "APPEARS BENIGN"]


(***************************************************************************)
(* Analyzer.identifyFramework / getMITREMapping (v2.0 analyzer) and        *)
(* ThreatIntel.getMalwareFamilyInfo                                        *)
(***************************************************************************)

\* families: case-insensitive substring match of the malware label against
\* the five family keys.  Labels are drawn from MalwareLabels below.
GetMalwareFamilyInfo(malware) ==
    CASE malware \in {"Cobalt Strike", "cobalt strike beacon"} -> "Cobalt Strike"
      [] malware \in {"Meterpreter"} -> "Metasploit Framework"
      [] malware \in {"Empire"} -> "PowerShell Empire"
      [] malware \in {"Sliver"} -> "Sliver"
      [] malware \in {"Covenant"} -> "Covenant"
      [] OTHER -> "null"

\* frameworks.push(...) for every match whose family is known.
RECURSIVE FrameworksFromIntel(_)
FrameworksFromIntel(ms) ==
    IF ms = <<>> THEN <<>>
    ELSE LET info == GetMalwareFamilyInfo(Head(ms).malware) IN
         (IF info # "null"
          THEN <<[name |-> info, confidence |-> "High", source |-> "threat_intel"]>>
          ELSE <<>>) \o FrameworksFromIntel(Tail(ms))

FrameworksFromBehavior(f) ==
    (IF Ge(f.mean_interval, 55000) /\ Le(f.mean_interval, 65000) /\ Lt(f.jitter, 100)
     THEN <<[name |-> "Cobalt Strike", confidence |-> "High", source |-> "behavioral"]>>
     ELSE <<>>)
    \o (IF Ge(f.mean_interval, 110000) /\ Le(f.mean_interval, 130000) /\ Lt(f.jitter, 150)
        THEN <<[name |-> "Metasploit/Meterpreter", confidence |-> "Medium", source |-> "behavioral"]>>
        ELSE <<>>)
    \o (IF Ge(f.mean_interval, 4000) /\ Le(f.mean_interval, 12000) /\ Gt(f.periodicity, 600)
        THEN <<[name |-> "PowerShell Empire", confidence |-> "Medium", source |-> "behavioral"]>>
        ELSE <<>>)
    \o (IF Ge(f.mean_interval, 55000) /\ Le(f.mean_interval, 65000) /\ Gt(f.bytes_consistency, 850)
        THEN <<[name |-> "Sliver", confidence |-> "Medium", source |-> "behavioral"]>>
        ELSE <<>>)
    \o (IF Lt(f.port_entropy, 500) /\ f.unique_dest_ports = 1
        THEN <<[name |-> "Generic C2", confidence |-> "Medium", source |-> "behavioral"]>>
        ELSE <<>>)

RECURSIVE DedupeByName(_, _)
\* The `seen` set pass: the first framework of each name is kept.
DedupeByName(fws, seen) ==
    IF fws = <<>> THEN <<>>
    ELSE IF Head(fws).name \in seen THEN DedupeByName(Tail(fws), seen)
    ELSE <<Head(fws)>> \o DedupeByName(Tail(fws), seen \cup {Head(fws).name})

\* Precondition: every match has a malware label (see DetectOutcome).
IdentifyFramework(f, ms) ==
    LET unique == DedupeByName(FrameworksFromIntel(ms) \o FrameworksFromBehavior(f), {}) IN
    IF Len(unique) > 0 THEN unique
    ELSE <<[name |-> "Unknown/Custom", confidence |-> "N/A", source |-> "behavioral"]>>

GetMITREMapping(f) ==
    (IF Gt(f.periodicity, 700) THEN <<"T1071">> ELSE <<>>)
    \o (IF f.unique_dest_ips = 1 /\ Gt(f.duration_minutes, 60000) THEN <<"T1573">> ELSE <<>>)
    \o (IF Gt(f.bytes_consistency, 850) THEN <<"T1001">> ELSE <<>>)

\* Detector.detect as a whole.  getMalwareFamilyInfo calls malware.toLowerCase():
\* a match without a malware property raises a TypeError out of detect.
DetectOutcome(f, ms) ==
    IF \E i \in 1..Len(ms) : ~Has(ms[i], "malware")
    THEN [status |-> "error", error |-> "TypeError"]
    ELSE LET finalScore == DetectFinalScore(f, ms)
             tier == DetectTier(finalScore) IN
         [status |-> "ok",
          score |-> finalScore,
          classification |-> tier.classification,
          severity |-> tier.severity,
          recommendation |-> tier.recommendation,
          reasons |-> DetectReasons(f, ms),
          identifiedFrameworks |-> IdentifyFramework(f, ms),
          mitreTechniques |-> GetMITREMapping(f)]

(***************************************************************************)
(* ThreatIntel v2.1 (multi-source resolver feeding Detector.detect)        *)
(***************************************************************************)

\* Math.min(100, Math.round(totalScore / totalWeight)); weights in hundredths:
\* ThreatFox 1.0, Custom Rules 0.85; the total is multiplied by 1.2 when more
\* than one source agrees.
CalculateCombinedScore(sources) ==
    LET w(src) == IF src.source = "ThreatFox" THEN 100
                  ELSE IF src.source = "Custom Rules" THEN 85 ELSE 50
        conf(src) == IF src.confidence_level = 0 THEN 50 ELSE src.confidence_level
        totalScore == SumSeq([i \in 1..Len(sources) |-> conf(sources[i]) * w(sources[i])])
        totalWeight == SumSeq([i \in 1..Len(sources) |-> w(sources[i])])
        num == IF Len(sources) > 1 THEN totalScore * 12 ELSE totalScore * 10
        den == totalWeight * 10
        rounded == (2 * num + den) \div (2 * den) IN
    IF Len(sources) = 0 THEN 0
    ELSE IF rounded > 100 THEN 100 ELSE rounded

\* lookupIPMultiSource given what each enabled source answered for the ip
\* (<<>> for no answer, else a one-element sequence), plus the connection_count
\* that checkConnections attaches.  The record has no top-level
\* confidence_level and no top-level malware.
LookupIPMultiSource(ip, tfResult, customResult, connCount) ==
    LET sources == [i \in 1..Len(tfResult) |->
                        [source |-> "ThreatFox", malware |-> tfResult[i].malware,
                         confidence_level |-> tfResult[i].confidence_level]]
                   \o [i \in 1..Len(customResult) |->
                        [source |-> "Custom Rules", malware |-> customResult[i].malware,
                         confidence_level |-> customResult[i].confidence_level]]
        confs == [i \in 1..Len(sources) |-> sources[i].confidence_level] IN
    [ip |-> ip,
     sources |-> sources,
     highestConfidence |-> IF Len(confs) = 0 THEN 0
                           ELSE IF MaxSeq(confs) > 0 THEN MaxSeq(confs) ELSE 0,
     combinedThreatScore |-> CalculateCombinedScore(sources),
     connection_count |-> connCount]


(***************************************************************************)
(* Analyzer.detectFrameworks (v2.1.1 analyzer): fills                      *)
(* features.frameworkSignatures, which Detector.scoreBehavioral reads      *)
(***************************************************************************)

DetectFrameworks(f) ==
    LET named ==
        (IF Ge(f.meanInterval, 55000) /\ Le(f.meanInterval, 65000)
            /\ Lt(f.jitter, 100) /\ Gt(f.periodicity, 750)
         THEN <<[framework |-> "Cobalt Strike", confidence |-> "high"]>> ELSE <<>>)
        \o (IF Ge(f.meanInterval, 110000) /\ Le(f.meanInterval, 130000)
               /\ Lt(f.jitter, 200) /\ Gt(f.periodicity, 650)
            THEN <<[framework |-> "Metasploit/Meterpreter", confidence |-> "medium"]>> ELSE <<>>)
        \o (IF Lt(f.meanInterval, 30000) /\ Gt(f.meanInterval, 5000)
               /\ Gt(f.periodicity, 700)
            THEN <<[framework |-> "PowerShell Empire", confidence |-> "medium"]>> ELSE <<>>)
        \o (IF Gt(f.payloadConsistency, 850) /\ Gt(f.periodicity, 600)
               /\ Gt(f.meanInterval, 30000)
            THEN <<[framework |-> "Sliver", confidence |-> "low"]>> ELSE <<>>) IN
    IF Len(named) = 0 /\ Gt(f.periodicity, 650) /\ Lt(f.jitter, 300)
       /\ f.uniqueDestinations = 1
    THEN <<[framework |-> "Generic C2", confidence |-> "low"]>>
    ELSE named

(***************************************************************************)
(* MLDetector v2.1.1 (rule-based classifier and anomaly detector)          *)
(***************************************************************************)

\* getConfidenceLevel(score), score in ten-thousandths.
GetConfidenceLevel(score) ==
    IF score >= 8500 THEN "high"
    ELSE IF score >= 6500 THEN "medium"
    ELSE IF score >= 4500 THEN "low"
    ELSE "very low"

\* beaconClassifier.predict: score in thousandths, capped at 1.0.
BeaconClassifierScore(f) ==
    LET score ==
          (IF Gt(f.periodicity, 800) THEN 350 ELSE IF Gt(f.periodicity, 700) THEN 250 ELSE 0)
        + (IF Lt(f.jitter, 100) THEN 300 ELSE IF Lt(f.jitter, 200) THEN 200 ELSE 0)
        + (IF Gt(f.payloadConsistency, 900) THEN 200
           ELSE IF Gt(f.payloadConsistency, 800) THEN 150 ELSE 0)
        + (IF f.uniqueDestinations = 1 THEN 150 ELSE 0)
        + (IF Lt(f.portDiversity, 100) THEN 100 ELSE 0)
        + (IF Gt(f.durationHours, 2000) THEN 100 ELSE 0) IN
    IF score > 1000 THEN 1000 ELSE score

\* anomalyDetector.detect: the triggered weights are summed and capped at 1.0.
AnomalyDetectorScore(f) ==
    LET near(x, c, tol) == (IF x >= c THEN x - c ELSE c - x) < tol
        anomalyScore ==
          (IF Gt(f.periodicity, 850) /\ Lt(f.jitter, 150) THEN 300 ELSE 0)
        + (IF Gt(f.meanInterval, 50000) /\ Lt(f.meanInterval, 150000)
              /\ (near(f.meanInterval, 60000, 5000) \/ near(f.meanInterval, 120000, 10000))
           THEN 350 ELSE 0)
        + (IF Gt(f.payloadConsistency, 900) THEN 200 ELSE 0)
        + (IF f.uniqueDestinations = 1 /\ f.connectionCount > 20 THEN 150 ELSE 0)
        + (IF Lt(f.timingEntropy, 2000) THEN 150 ELSE 0)
        + (IF Gt(f.durationHours, 3000) THEN 100 ELSE 0) IN
    IF anomalyScore > 1000 THEN 1000 ELSE anomalyScore

\* combineResults: 0.6 * beacon + 0.4 * anomaly, in ten-thousandths;
\* confidenceThreshold is 0.65.
CombineResults(beaconScore, anomalyScore) ==
    LET combinedScore == beaconScore * 6 + anomalyScore * 4 IN
    [prediction |-> IF combinedScore >= 6500 THEN "malicious" ELSE "benign",
     score |-> combinedScore,
     confidence |-> GetConfidenceLevel(combinedScore)]

\* MLDetector.predict with config.enabled, useEnsemble and both models created.
MLPredict(f) ==
    [enabled |-> TRUE,
     beacon |-> BeaconClassifierScore(f),
     anomaly |-> AnomalyDetectorScore(f),
     ensemble |-> CombineResults(BeaconClassifierScore(f), AnomalyDetectorScore(f))]

(***************************************************************************)
(* Detector.analyze (v2.1.1 engine)                                        *)
(***************************************************************************)

\* scoreThreatIntel: 30 per match plus bonuses, the total capped at 70.
ScoreThreatIntel(ms) ==
    LET per(m) == 30
            + (IF Ge(m.confidence, 80) THEN 20 ELSE IF Ge(m.confidence, 60) THEN 10 ELSE 0)
            + (IF m.malware # "Unknown" THEN 10 ELSE 0)
            + (IF m.source = "ThreatFox" THEN 10 ELSE 0)
        score == SumSeq([i \in 1..Len(ms) |-> per(ms[i])]) IN
    IF Len(ms) = 0 THEN 0
    ELSE IF score > 70 THEN 70 ELSE score

ScoreMLPrediction(ml) ==
    IF ~ml.enabled THEN 0
    ELSE IF ml.ensemble.prediction = "malicious"
    THEN 20 + (IF ml.ensemble.confidence = "high" THEN 15
               ELSE IF ml.ensemble.confidence = "medium" THEN 10 ELSE 5)
    ELSE 0

BehavioralPeriodicity(f) ==
    IF Gt(f.periodicity, 800) THEN <<[factor |-> "Extreme Periodicity", points |-> 35]>>
    ELSE IF Gt(f.periodicity, 700) THEN <<[factor |-> "High Periodicity", points |-> 25]>>
    ELSE IF Gt(f.periodicity, 600) THEN <<[factor |-> "Moderate Periodicity", points |-> 15]>>
    ELSE <<>>

\* Variant whose top band includes its breakpoint.
BehavioralJitterInclusive(f) ==
    IF Le(f.jitter, 80) THEN <<[factor |-> "Extremely Low Jitter", points |-> 30]>>
    ELSE IF Lt(f.jitter, 150) THEN <<[factor |-> "Low Jitter", points |-> 20]>>
    ELSE IF Lt(f.jitter, 250) THEN <<[factor |-> "Consistent Timing", points |-> 10]>>
    ELSE <<>>

BehavioralJitter(f) ==
    IF Lt(f.jitter, 80) THEN <<[factor |-> "Extremely Low Jitter", points |-> 30]>>
    ELSE IF Lt(f.jitter, 150) THEN <<[factor |-> "Low Jitter", points |-> 20]>>
    ELSE IF Lt(f.jitter, 250) THEN <<[factor |-> "Consistent Timing", points |-> 10]>>
    ELSE <<>>

BehavioralPayload(f) ==
    IF Gt(f.payloadConsistency, 900)
    THEN <<[factor |-> "Very Consistent Payloads", points |-> 20]>>
    ELSE IF Gt(f.payloadConsistency, 800)
    THEN <<[factor |-> "Consistent Payloads", points |-> 15]>>
    ELSE <<>>

\* Only the first framework signature is scored.
BehavioralSignature(f) ==
    IF Len(f.frameworkSignatures) > 0
    THEN LET sig == f.frameworkSignatures[1] IN
         <<[factor |-> "Framework Signature",
            points |-> IF sig.confidence = "high" THEN 20
                       ELSE IF sig.confidence = "medium" THEN 15 ELSE 10]>>
    ELSE <<>>

BehavioralPersistence(f) ==
    IF Gt(f.durationHours, 2000) THEN <<[factor |-> "Sustained Activity", points |-> 15]>>
    ELSE IF Gt(f.durationHours, 1000) THEN <<[factor |-> "Extended Activity", points |-> 10]>>
    ELSE <<>>

BehavioralNetwork(f) ==
    (IF f.uniqueDestinations = 1
     THEN <<[factor |-> "Single Destination", points |-> 12]>> ELSE <<>>)
    \o (IF Lt(f.portDiversity, 150)
        THEN <<[factor |-> "Low Port Diversity", points |-> 10]>> ELSE <<>>)
    \o (IF Lt(f.timingEntropy, 2500)
        THEN <<[factor |-> "Low Timing Entropy", points |-> 10]>> ELSE <<>>)

\* scoreBehavioral(features).factors; .total is the sum of their points.
ScoreBehavioralFactors(f) ==
    BehavioralPeriodicity(f) \o BehavioralJitter(f) \o BehavioralPayload(f)
    \o BehavioralSignature(f) \o BehavioralPersistence(f) \o BehavioralNetwork(f)

ScoreBehavioralTotal(f) ==
    LET fs == ScoreBehavioralFactors(f) IN SumSeq([i \in 1..Len(fs) |-> fs[i].points])

\* Variant with the two jitter penalties swapped.
ScoreBenignIndicatorsSwapped(f) ==
      (IF Gt(f.jitter, 600) THEN -10 ELSE IF Gt(f.jitter, 450) THEN -15 ELSE 0)
    + (IF f.uniqueDestinations > 5 THEN -15 ELSE IF f.uniqueDestinations > 3 THEN -10 ELSE 0)
    + (IF Lt(f.meanInterval, 5000) THEN -10 ELSE 0)
    + (IF Gt(f.timingEntropy, 4000) THEN -10 ELSE 0)
    + (IF Gt(f.portDiversity, 700) THEN -10 ELSE 0)

\* scoreBenignIndicators: one (non-positive) penalty; meanInterval in ms.
ScoreBenignIndicators(f) ==
      (IF Gt(f.jitter, 600) THEN -15 ELSE IF Gt(f.jitter, 450) THEN -10 ELSE 0)
    + (IF f.uniqueDestinations > 5 THEN -15 ELSE IF f.uniqueDestinations > 3 THEN -10 ELSE 0)
    + (IF Lt(f.meanInterval, 5000) THEN -10 ELSE 0)
    + (IF Gt(f.timingEntropy, 4000) THEN -10 ELSE 0)
    + (IF Gt(f.portDiversity, 700) THEN -10 ELSE 0)

Classify(score) ==
    IF score >= 80 THEN "CRITICAL"
    ELSE IF score >= 65 THEN "SUSPICIOUS"
    ELSE IF score >= 45 THEN "MONITOR"
    ELSE "BENIGN"

\* Variant whose "high" band starts five points late.
GetSeverityShifted(score) ==
    IF score >= 80 THEN "critical"
    ELSE IF score >= 70 THEN "high"
    ELSE IF score >= 45 THEN "medium"
    ELSE "info"

GetSeverity(score) ==
    IF score >= 80 THEN "critical"
    ELSE IF score >= 65 THEN "high"
    ELSE IF score >= 45 THEN "medium"
    ELSE "info"

\* recommendations[classification] || 'No recommendation available.'
GetRecommendation(score, classification) ==
    CASE classification = "CRITICAL" -> "IMMEDIATE ACTION REQUIRED"
      [] classification = "SUSPICIOUS" -> "URGENT INVESTIGATION NEEDED"
      [] classification = "MONITOR" -> "ENHANCED MONITORING RECOMMENDED"
      [] classification = "BENIGN" -> "APPEARS BENIGN"
      [] OTHER -> "No recommendation available."

\* Variant that bounds the positive part before the benign penalty is added.
AnalyzeRawScoreClampedEarly(tiScore, mlScore, behavioralTotal, benignScore) ==
    Clamp100(tiScore + mlScore + behavioralTotal) + benignScore

\* result.score after the four `result.score += ...` statements, before the
\* bounds are applied.
AnalyzeRawScore(tiScore, mlScore, behavioralTotal, benignScore) ==
    tiScore + mlScore + behavioralTotal + benignScore

\* result.detectionFactors in push order.
AnalyzeFactors(f, ms, ml) ==
    (IF Len(ms) > 0
     THEN <<[factor |-> "Threat Intelligence Match", points |-> ScoreThreatIntel(ms)]>>
     ELSE <<>>)
    \o (IF ml.enabled /\ ScoreMLPrediction(ml) > 0
        THEN <<[factor |-> "Machine Learning Detection", points |-> ScoreMLPrediction(ml)]>>
        ELSE <<>>)
    \o ScoreBehavioralFactors(f)
    \o (IF ScoreBenignIndicators(f) < 0
        THEN <<[factor |-> "Benign Indicators", points |-> ScoreBenignIndicators(f)]>>
        ELSE <<>>)

\* Detector.analyze as a whole, given the matches checkThreatIntel collected.
AnalyzeOutcome(f, ms) ==
    LET ml == MLPredict(f)
        raw == AnalyzeRawScore(ScoreThreatIntel(ms), ScoreMLPrediction(ml),
                               ScoreBehavioralTotal(f), ScoreBenignIndicators(f))
        score == Clamp100(raw) IN
    [status |-> "ok",
     score |-> score,
     classification |-> Classify(score),
     severity |-> GetSeverity(score),
     recommendation |-> GetRecommendation(score, Classify(score)),
     detectionFactors |-> AnalyzeFactors(f, ms, ml),
     mlPrediction |-> ml]


(***************************************************************************)
(* Inputs of the scoring runs                                              *)
(*                                                                         *)
(* Feature vectors are the ones the extractors can produce: fields that    *)
(* an extractor derives from the same quantity are derived here too.       *)
(***************************************************************************)

PeriodicityValues == {600, 700, 800, 850}

JitterValues == {50, 80, 120, 150, 250, 710}

ConsistencyValues == {800, 900, 950}

MeanIntervalValues == {2000, 10000, 60000, 120000}

ConnectionCounts == {25, 40, 130, 1000}

DestinationCounts == {1, 12}

\* <<unique_dest_ports, port_entropy>>
PortProfiles == {<<1, 0>>, <<2, 1000>>}

EntropyValues == {1000, 2000}

\* <<night_ratio, time_diversity>>
TimeProfiles == {<<800, 100>>, <<200, 800>>, <<200, 100>>}

\* v2.0 Analyzer.extractFeatures: jitter and cv_interval are the same cv;
\* the mean of the n-1 intervals times n-1 is the duration.
FeaturesV20(p, j, b, mi, n, d, ports, e, t) ==
    [periodicity |-> p, jitter |-> j, cv_interval |-> j,
     bytes_consistency |-> b, mean_interval |-> mi,
     connection_count |-> n, duration_minutes |-> (mi * (n - 1)) \div 60,
     unique_dest_ips |-> d,
     unique_dest_ports |-> ports[1], port_entropy |-> ports[2],
     entropy |-> e, night_ratio |-> t[1], time_diversity |-> t[2]]

\* Combinations no connection list produces: a cv of 0.05 leaves at least
\* 80% of the intervals within 15% of the median; an interval entropy of 2
\* bits needs a spread of about a second; 17 distinct hours of day need 16 h.
FeasibleV20(f) ==
    /\ (f.jitter < 80 => f.periodicity > 800)
    /\ (f.entropy >= 2000 => f.mean_interval * f.jitter >= 1000000)
    /\ (f.time_diversity > 700 => f.duration_minutes >= 960000)

DetectFeatureSet ==
    {f \in {FeaturesV20(p, j, b, mi, n, d, ports, e, t) :
                p \in PeriodicityValues, j \in JitterValues, b \in ConsistencyValues,
                mi \in MeanIntervalValues, n \in ConnectionCounts,
                d \in DestinationCounts, ports \in PortProfiles,
                e \in EntropyValues, t \in TimeProfiles} : FeasibleV20(f)}

\* A match in the flat shape Detector.detect reads (ip, malware,
\* confidence_level, connection_count).
FlatMatch(malware, conf) ==
    [ip |-> "203.0.113.5", malware |-> malware, threat_type |-> "botnet_cc",
     confidence_level |-> conf, connection_count |-> 5]

\* What ThreatIntel.checkConnections (v2.1) hands over for one listed ip.
ResolverMatch ==
    LookupIPMultiSource("203.0.113.5",
                        <<[malware |-> "Cobalt Strike", confidence_level |-> 90]>>, <<>>, 5)

DetectMatchSet ==
    {<<>>,
     <<FlatMatch("Cobalt Strike", 75)>>,
     <<FlatMatch("Unknown", 74)>>,
     <<FlatMatch("Unknown", 50), FlatMatch("Meterpreter", 90)>>,
     <<ResolverMatch>>}

JitterValuesV211 == {50, 80, 100, 150, 200, 250, 300, 400, 460, 610}

MeanIntervalValuesV211 == {4000, 10000, 60000, 120000}

ConnectionCountsV211 == {25, 40, 130}

DestinationCountsV211 == {1, 4, 6}

PortDiversityValues == {0, 140, 500, 800}

TimingEntropyValues == {500, 2200, 3000, 4500}

\* Variant that returns the cv itself.
CalculatePeriodicityOfCv(jitter) == jitter

\* Utils.calculatePeriodicity with at least 3 intervals: max(0, 1 - cv),
\* where cv is the value calculateJitter returns.
CalculatePeriodicity(jitter) == IF 1000 - jitter < 0 THEN 0 ELSE 1000 - jitter

\* v2.1.1 Analyzer.extractFeatures without frameworkSignatures.
BaseFeaturesV211(j, b, mi, n, d, pd, e) ==
    [jitter |-> j, periodicity |-> CalculatePeriodicity(j),
     payloadConsistency |-> b, meanInterval |-> mi,
     connectionCount |-> n, durationHours |-> (mi * (n - 1)) \div 3600,
     uniqueDestinations |-> d, portDiversity |-> pd, timingEntropy |-> e]

\* features.frameworkSignatures = this.detectFrameworks(features, connections)
WithSignatures(base) == [k \in DOMAIN base \cup {"frameworkSignatures"} |->
                            IF k = "frameworkSignatures" THEN DetectFrameworks(base)
                            ELSE base[k]]

\* A port diversity of 0.14 is one port over at least 51 records; an entropy
\* of e bits over whole seconds needs a matching spread of the intervals.
FeasibleV211(f) ==
    /\ (f.portDiversity = 140 => f.connectionCount >= 51)
    /\ (f.timingEntropy = 2200 => f.meanInterval * f.jitter >= 1000000)
    /\ (f.timingEntropy = 3000 => f.meanInterval * f.jitter >= 2000000)
    /\ (f.timingEntropy = 4500 => f.meanInterval * f.jitter >= 5000000)

AnalyzeFeatureSet ==
    {WithSignatures(f) :
        f \in {g \in {BaseFeaturesV211(j, b, mi, n, d, pd, e) :
                         j \in JitterValuesV211, b \in ConsistencyValues,
                         mi \in MeanIntervalValuesV211, n \in ConnectionCountsV211,
                         d \in DestinationCountsV211, pd \in PortDiversityValues,
                         e \in TimingEntropyValues} : FeasibleV211(g)}}

\* ThreatIntel.checkCustomRules (v2.1.1) for a rule with the given confidence
\* (0 when the rule has none) and no malware label.
CustomRuleMatch(ruleConfidence) ==
    [source |-> "Custom Rules", ip |-> "203.0.113.5", malware |-> "Custom Detection",
     confidence |-> IF ruleConfidence = 0 THEN 70 ELSE ruleConfidence]

\* mapConfidence: high 90, medium 70, low 50, anything else 60.
MapConfidence(level) ==
    CASE level = "high" -> 90 [] level = "medium" -> 70 [] level = "low" -> 50
      [] OTHER -> 60

\* ThreatIntel.lookupThreatFox (v2.1.1) for an IOC the feed lists.
ThreatFoxMatch(malware, level) ==
    [source |-> "ThreatFox", ip |-> "203.0.113.5", malware |-> malware,
     confidence |-> MapConfidence(level)]

AnalyzeMatchSet ==
    {<<>>,
     <<CustomRuleMatch(50)>>,
     <<CustomRuleMatch(0)>>,
     <<CustomRuleMatch(90)>>,
     <<ThreatFoxMatch("Cobalt Strike", "high")>>,
     <<CustomRuleMatch(50), ThreatFoxMatch("Unknown", "none")>>}

(***************************************************************************)
(* MLDetector v2.1 (js/ml-detector.js): models over normalized features    *)
(***************************************************************************)

\* normalization as declared; only the keys the models read after
\* normalizeFeatures are kept (bytes_cv and connection_count are normalized
\* too, but no model reads their normalized value).  mean and std are in
\* thousandths.
DefaultNormalization ==
    [mean_interval |-> [mean |-> 45200, std |-> 35800],
     jitter        |-> [mean |-> 250,   std |-> 180],
     periodicity   |-> [mean |-> 450,   std |-> 280],
     entropy       |-> [mean |-> 2800,  std |-> 1200]]

\* normalizeFeatures(features)[key] > num/den, i.e. (value - mean) / std > num/den.
\* A std of 0 makes the quotient +Infinity, -Infinity or NaN (0 / 0).
NormGt(norm, f, key, num, den) ==
    LET d == f[key] - norm[key].mean IN
    IF norm[key].std = 0 THEN d > 0 ELSE d * den > num * norm[key].std

NormLt(norm, f, key, num, den) ==
    LET d == f[key] - norm[key].mean IN
    IF norm[key].std = 0 THEN d < 0 ELSE d * den < num * norm[key].std

\* createBeaconClassifier().predict: probability in thousandths.
BeaconClassifierV21(norm, f) ==
    LET score ==
          (IF NormGt(norm, f, "periodicity", 7, 10) THEN 350
           ELSE IF NormGt(norm, f, "periodicity", 5, 10) THEN 200 ELSE 0)
        + (IF NormLt(norm, f, "jitter", 15, 100) THEN 300
           ELSE IF NormLt(norm, f, "jitter", 30, 100) THEN 150 ELSE 0)
        + (IF ~NormLt(norm, f, "mean_interval", 30, 1) /\ ~NormGt(norm, f, "mean_interval", 180, 1)
              /\ ~(norm.mean_interval.std = 0 /\ f.mean_interval = norm.mean_interval.mean)
           THEN 250 ELSE 0)
        + (IF Gt(f.bytes_consistency, 850) THEN 200
           ELSE IF Gt(f.bytes_consistency, 700) THEN 100 ELSE 0)
        + (IF NormLt(norm, f, "entropy", 2, 1) THEN 150 ELSE 0)
        + (IF Lt(f.port_entropy, 500) /\ f.unique_dest_ports = 1 THEN 100 ELSE 0) IN
    [probability |-> IF score > 1000 THEN 1000 ELSE score,
     confidence |-> IF score > 650 THEN "high" ELSE "medium"]

\* createAnomalyDetector().predict: the factor scores (thousandths); the
\* anomaly score is their mean, 0 when there is none.
AnomalyFactorsV21(f) ==
    (IF Lt(f.jitter, 100) THEN <<900>> ELSE IF Lt(f.jitter, 200) THEN <<600>> ELSE <<>>)
    \o (IF Gt(f.periodicity, 800) THEN <<950>>
        ELSE IF Gt(f.periodicity, 650) THEN <<700>> ELSE <<>>)
    \o (IF Gt(f.bytes_consistency, 900) THEN <<850>> ELSE <<>>)
    \o (IF f.unique_dest_ips = 1 /\ f.connection_count > 30 THEN <<750>> ELSE <<>>)
    \o (IF Lt(f.entropy, 1500) THEN <<800>> ELSE <<>>)

\* ensemblePrediction: score = 0.6 * probability + 0.4 * anomaly_score (the
\* weights add up to 1).  With n factors the comparison `score > t` is
\* 6 * probability * n + 4 * sum > 10 * t * n (n = 1 and sum = 0 without factors).
\* ensemble_score is the quotient num / den, in thousandths.
EnsemblePredictionV21(probability, factors) ==
    LET n == IF Len(factors) = 0 THEN 1 ELSE Len(factors)
        lhs == 6 * probability * n + 4 * SumSeq(factors)
        above(t) == lhs > 10 * t * n IN
    [prediction |-> IF above(650) THEN "malicious"
                    ELSE IF above(450) THEN "suspicious" ELSE "benign",
     ensemble_score |-> [num |-> lhs, den |-> 10 * n],
     confidence |-> IF above(750) THEN "high" ELSE IF above(550) THEN "medium" ELSE "low"]

\* MLDetector.predict(features) with both models created.
PredictV21(norm, f) ==
    LET beacon == BeaconClassifierV21(norm, f) IN
    [beacon_classifier |-> beacon,
     anomaly_factors |-> AnomalyFactorsV21(f),
     ensemble |-> EnsemblePredictionV21(beacon.probability, AnomalyFactorsV21(f))]

\* Lengths of the histories handed to trainOnHistory (the statistics of one
\* or two values are exact in fixed point).
HistorySizes == {1, 2}

\* Most predict calls followed in one behaviour.
MaxPredictions == 3

\* mean and Math.sqrt(variance) of one or two values (population variance:
\* 0 for one value, half the distance for two).
TrainedStats(values) ==
    IF Len(values) = 1 THEN [mean |-> values[1], std |-> 0]
    ELSE [mean |-> (values[1] + values[2]) \div 2,
          std |-> (IF values[1] >= values[2] THEN values[1] - values[2]
                   ELSE values[2] - values[1]) \div 2]

\* The feature vectors the ML calls are followed on.
\* The last one has probability 0.35 + 0.15 = 0.5 and the anomaly factors
\* 0.95 and 0.8: 0.5 * 0.6 + 0.875 * 0.4 is 0.65 in the doubles of the code too.
MLFeatureSet ==
    {FeaturesV20(p, j, 900, 60000, 40, 1, <<1, 0>>, 1000, <<200, 100>>) :
        p \in {600, 850}, j \in {80, 250}}
    \cup {FeaturesV20(850, 500, 500, 60000, 10, 3, <<2, 1000>>, 1000, <<200, 100>>)}

(***************************************************************************)
(* ML calls: predict and trainOnHistory in any order                       *)
(***************************************************************************)

InitML ==
    /\ engine = "ml"
    /\ features = <<>>
    /\ matches = <<>>
    /\ result = NoResult
    /\ normalization = DefaultNormalization
    /\ predictions = <<>>
    /\ connections = <<>>
    /\ intel = NoIntel
    /\ history = <<>>
    /\ lookups = <<>>
    /\ storage = <<>>
    /\ now = StartTime
    /\ NoAsync

\* await MLDetector.predict(f)
Predict ==
    /\ engine = "ml"
    /\ Len(predictions) < MaxPredictions
    /\ \E f \in MLFeatureSet :
          predictions' = Append(predictions,
                                [features |-> f, output |-> PredictV21(normalization, f)])
    /\ UNCHANGED <<asyncVars, normalization, scoreVars, inputVars>>

\* await MLDetector.trainOnHistory(historicalAnalyses): overwrites the
\* normalization entry of every listed key some analysis has a value for.
TrainOnHistory ==
    /\ engine = "ml"
    /\ \E n \in HistorySizes : \E h \in [1..n -> MLFeatureSet] :
          normalization' =
              [key \in DOMAIN normalization |-> TrainedStats([i \in 1..n |-> h[i][key]])]
    /\ UNCHANGED <<asyncVars, predictions, scoreVars, inputVars>>

NextML == Predict \/ TrainOnHistory

SpecML == InitML /\ [][NextML]_vars

(***************************************************************************)
(* Utils and Analyzer.extractFeatures of the v2.0 pipeline                 *)
(*                                                                         *)
(* A connection is a record holding only the properties the input object   *)
(* has.  Numeric properties are read through `a || b || ...`, for which a  *)
(* missing property and 0 are the same (falsy) value.                      *)
(***************************************************************************)

RECURSIVE FirstTruthy(_, _)
\* conn[k1] || conn[k2] || ... : the first truthy value, 0 when there is none.
FirstTruthy(conn, keys) ==
    IF keys = <<>> THEN 0
    ELSE IF Head(keys) \in DOMAIN conn /\ conn[Head(keys)] # 0 THEN conn[Head(keys)]
    ELSE FirstTruthy(conn, Tail(keys))

RECURSIVE FirstTruthyTime(_, _)
\* conn[k1] || conn[k2] || ... for timestamp fields: NoTime when there is none.
FirstTruthyTime(conn, keys) ==
    IF keys = <<>> THEN NoTime
    ELSE IF Head(keys) \in DOMAIN conn /\ conn[Head(keys)] # NoTime THEN conn[Head(keys)]
    ELSE FirstTruthyTime(conn, Tail(keys))

\* conn.dest_ip || conn.dst || ... : addresses are their four octets, <<>>
\* stands for no destination (undefined, or the default 'unknown').
DestIPField(conn) == IF "dest_ip" \in DOMAIN conn THEN conn.dest_ip ELSE <<>>

\* Utils.validateConnections: the error message, "" when isValid.  Only the
\* first min(5, n) records are looked at, and only for timestamp, time, ts.
ValidateConnections(conns) ==
    IF Len(conns) < 2 THEN "Need at least 2 connections"
    ELSE LET sampleSize == IF Len(conns) < 5 THEN Len(conns) ELSE 5 IN
         IF \E i \in 1..sampleSize : FirstTruthyTime(conns[i], <<"timestamp", "time", "ts">>) # NoTime
         THEN ""
         ELSE "No timestamp field found"

\* The value Utils.getTimestamp resolves; NoTime means it throws 'No timestamp found'.
ResolveTimestamp(conn) == FirstTruthyTime(conn, <<"timestamp", "time", "ts", "epoch">>)

\* Utils.getTimestamp for a connection it does not throw on:
\* ts < 10000000000 ? ts * 1000 : ts
GetTimestamp(conn) ==
    LET ts == ResolveTimestamp(conn) IN
    IF ts[1] < 10000000 THEN <<ts[1] * 1000 + ts[2], 0>> ELSE ts

\* Analyzer.extractFeatures (v2.0) for connections whose timestamps resolve.
\* Timestamps are whole seconds here, so the intervals are whole seconds too
\* and the (scale-free) cv is computed on seconds.  Hours are taken in UTC.
ExtractFeaturesV20(conns) ==
    LET n == Len(conns)
        timestamps == SortTimes([i \in 1..n |-> GetTimestamp(conns[i])])
        intervals == [i \in 1..(n - 1) |-> TimeDiff(timestamps[i + 1], timestamps[i])]
        total == SumSeq(intervals)
        median == SortAscending(intervals)[(Len(intervals) \div 2) + 1]
        cv == IF total > 0 THEN StdOverMean([i \in 1..(n - 1) |-> intervals[i] \div 1000])
              ELSE 0
        close == Cardinality({i \in 1..(n - 1) :
                     (IF intervals[i] >= median THEN intervals[i] - median
                      ELSE median - intervals[i]) * 100 < 15 * median})
        byteList == [i \in 1..n |-> FirstTruthy(conns[i], <<"bytes", "size", "length">>)]
        byteSizes == SelectSeq(byteList, LAMBDA b : b > 0)
        bytesCV == IF Len(byteSizes) > 0 /\ SumSeq(byteSizes) > 0
                   THEN StdOverMean(byteSizes) ELSE 1000
        destIPs == {DestIPField(conns[i]) : i \in 1..n}
        portList == SelectSeq([i \in 1..n |-> FirstTruthy(conns[i], <<"dest_port", "dport">>)],
                              LAMBDA q : q > 0)
        hours == [i \in 1..n |-> HourOf(timestamps[i])]
        night == Cardinality({i \in 1..n : hours[i] >= 22 \/ hours[i] < 6}) IN
    [mean_interval |-> total \div (n - 1),
     cv_interval |-> cv,
     jitter |-> cv,
     periodicity |-> IF median = 0 THEN 0 ELSE (close * 1000) \div (n - 1),
     entropy |-> EntropyOf([i \in 1..(n - 1) |-> intervals[i] \div 1000]),
     bytes_consistency |-> 1000 - (IF bytesCV < 1000 THEN bytesCV ELSE 1000),
     connection_count |-> n,
     duration_minutes |-> TimeDiff(timestamps[n], timestamps[1]) \div 60,
     unique_dest_ips |-> Cardinality(destIPs),
     unique_dest_ports |-> Cardinality({portList[i] : i \in 1..Len(portList)}),
     port_entropy |-> EntropyOf(portList),
     time_diversity |-> (Cardinality({hours[i] : i \in 1..n}) * 1000) \div 24,
     night_ratio |-> (night * 1000) \div n]

\* Analyzer.extractFeatures of the copy under docs/: the fields it returns.
\* std / mean is divided without a test, so intervals that are all 0 give
\* 0 / 0 for cv_interval and jitter.
ExtractFeaturesDocs(conns) ==
    LET f == ExtractFeaturesV20(conns) IN
    [k \in {"mean_interval", "cv_interval", "jitter", "periodicity", "bytes_consistency",
            "connection_count", "duration_minutes", "unique_dest_ips", "unique_dest_ports"} |->
        IF k \in {"cv_interval", "jitter"} /\ f.mean_interval = 0 THEN NaN ELSE f[k]]

\* Utils.isPrivateIP (v2.0): 'unknown' and anything but four octets count
\* as private.
IsPrivateIPV20(ip) ==
    \/ Len(ip) # 4
    \/ ip[1] = 10
    \/ (ip[1] = 172 /\ ip[2] >= 16 /\ ip[2] <= 31)
    \/ (ip[1] = 192 /\ ip[2] = 168)
    \/ ip[1] = 127

\* ip.split('.').reduce((int, oct) => (int << 8) + parseInt(oct), 0) >>> 0
\* (ipToNumber in v2.1, ip2long in v2.1.1): the unsigned 32-bit number of a
\* dotted quad, as its 32 bits, most significant first.
IpToNumber(ip) ==
    LET OctetBits(o) == [i \in 1..8 |-> (o \div (2 ^ (8 - i))) % 2] IN
    OctetBits(ip[1]) \o OctetBits(ip[2]) \o OctetBits(ip[3]) \o OctetBits(ip[4])

\* a & b on 32-bit numbers.
BitAnd(a, b) == [i \in 1..32 |-> a[i] * b[i]]

\* ThreatIntel.ipInCIDR (v2.1): mask = ~(2 ** (32 - bits) - 1).  The operand
\* of ~ is converted to 32 bits, so 2 ** 32 - 1 is all ones and the mask of
\* /0 is 0.
IpInCIDR(ip, cidr) ==
    LET low == 32 - cidr.bits
        mask == [i \in 1..32 |-> IF i > 32 - low THEN 0 ELSE 1] IN
    BitAnd(IpToNumber(ip), mask) = BitAnd(IpToNumber(cidr.range), mask)

\* ThreatIntel.checkCustomRules (v2.1): the first rule of type 'ip' whose
\* value is the ip or of type 'cidr' whose range holds it, as a one-element
\* sequence, else <<>>.
CheckCustomRulesV21(rules, ip) ==
    LET hits == SelectSeq(rules, LAMBDA r : \/ (r.type = "ip" /\ r.value = ip)
                                            \/ (r.type = "cidr" /\ IpInCIDR(ip, r.value))) IN
    IF Len(hits) = 0 THEN <<>>
    ELSE <<[malware |-> "Custom Detection",
            confidence_level |->
                IF hits[1].confidence # 0 THEN hits[1].confidence
                ELSE IF hits[1].type = "ip" THEN 75 ELSE 70]>>

\* What a request to the feed does: it lists the address, lists nothing,
\* answers with a non-2xx status, does not answer in time, answers with text
\* that is not JSON, or answers {query_status: 'ok', data: <a string>}.
FeedOutcomes == {"hit", "no_hit", "http_error", "timeout", "malformed", "wrong_shape"}

\* The IOC the feed returns for an address it lists.
FeedIOC == [malware |-> "win.cobalt_strike", malware_printable |-> "Cobalt Strike",
            confidence_level |-> 90]

\* ThreatIntel.lookupThreatFox (v2.1) with processIOCData: <<>> is null.  A
\* wrong-shaped answer passes the test on data.data.length and its first
\* character is processed as an IOC.
LookupThreatFoxV21(feed) ==
    CASE feed = "hit" ->
             <<[malware |-> FeedIOC.malware, confidence_level |-> FeedIOC.confidence_level]>>
      [] feed = "wrong_shape" -> <<[malware |-> "Unknown", confidence_level |-> 50]>>
      [] OTHER -> <<>>

\* ipsToCheck of ThreatIntel.checkConnections (v2.1): the distinct destination
\* addresses that Utils.isPrivateIP lets through, cut to config.maxIPs.
IpsToCheck(conns, ti) ==
    LET n == Len(conns)
        isFirst(i) == /\ Len(DestIPField(conns[i])) > 0
                      /\ ~IsPrivateIPV20(DestIPField(conns[i]))
                      /\ \A k \in 1..(i - 1) : DestIPField(conns[k]) # DestIPField(conns[i])
        firsts == SelectSeq([i \in 1..n |-> i], isFirst) IN
    [k \in 1..(IF Len(firsts) < ti.maxIPs THEN Len(firsts) ELSE ti.maxIPs) |->
        DestIPField(conns[firsts[k]])]

\* ThreatIntel.checkConnections (v2.1): one lookupIPMultiSource result per
\* checked address that some source lists.
CheckConnections(conns, ti) ==
    LET ipsToCheck == IpsToCheck(conns, ti)
        lookup(ip) == LookupIPMultiSource(ip, LookupThreatFoxV21(ti.feed),
                          CheckCustomRulesV21(ti.customRules, ip),
                          Cardinality({i \in 1..Len(conns) : DestIPField(conns[i]) = ip}))
        all == [k \in 1..Len(ipsToCheck) |-> lookup(ipsToCheck[k])] IN
    SelectSeq(all, LAMBDA r : Len(r.sources) > 0)

\* analyzeConnections(connections, fileName): validation, extraction, threat
\* intel, detection.  An error thrown at any stage ends in UI.showError.
AnalyzeConnectionsOutcome(conns, ti) ==
    IF ValidateConnections(conns) # ""
    THEN [status |-> "error", stage |-> "validation", message |-> ValidateConnections(conns)]
    ELSE IF \E i \in 1..Len(conns) : ResolveTimestamp(conns[i]) = NoTime
    THEN [status |-> "error", stage |-> "extraction", message |-> "No timestamp found"]
    ELSE LET out == DetectOutcome(ExtractFeaturesV20(conns), CheckConnections(conns, ti)) IN
         IF out.status = "error"
         THEN [status |-> "error", stage |-> "detection", message |-> out.error]
         ELSE out

(***************************************************************************)
(* Utils, Analyzer.extractFeatures and threat intel of the v2.1.1 pipeline *)
(***************************************************************************)

\* Utils.normalizeConnection: no unit conversion is applied to the timestamp.
NormalizeConnection(conn) ==
    [timestamp |-> FirstTruthyTime(conn, <<"timestamp", "time", "ts", "epoch">>),
     bytes |-> FirstTruthy(conn, <<"bytes", "size", "length">>),
     dest_ip |-> DestIPField(conn),
     src_ip |-> IF "src_ip" \in DOMAIN conn THEN conn.src_ip ELSE <<>>,
     dest_port |-> FirstTruthy(conn, <<"dest_port", "dport">>)]

\* Utils.validateJSON on the connection array: every normalized record needs
\* a truthy timestamp and a truthy dest_ip (checked in this order, record by
\* record).
ValidateJSON(conns) ==
    LET data == [i \in 1..Len(conns) |-> NormalizeConnection(conns[i])]
        bad == {i \in 1..Len(conns) : data[i].timestamp = NoTime \/ data[i].dest_ip = <<>>}
        first == CHOOSE i \in bad : \A k \in bad : i <= k IN
    IF Len(conns) < 2
    THEN [valid |-> FALSE, error |-> "At least 2 connections required", data |-> <<>>]
    ELSE IF bad # {}
    THEN [valid |-> FALSE,
          error |-> IF data[first].timestamp = NoTime THEN "Missing timestamp" ELSE "Missing dest_ip",
          data |-> <<>>]
    ELSE [valid |-> TRUE, error |-> "", data |-> data]

\* Analyzer.extractFeatures (v2.1.1) on validated, normalized connections:
\* intervals stay in the unit of the input timestamps.
ExtractFeaturesV211(conns) ==
    LET n == Len(conns)
        timestamps == SortTimes([i \in 1..n |-> conns[i].timestamp])
        intervals == [i \in 1..(n - 1) |-> TimeDiff(timestamps[i + 1], timestamps[i])]
        total == SumSeq(intervals)
        \* std / mean is scale-free: whole seconds are taken in seconds
        scaled == IF \A i \in 1..(n - 1) : intervals[i] % 1000 = 0
                  THEN [i \in 1..(n - 1) |-> intervals[i] \div 1000] ELSE intervals
        jitter == IF total = 0 THEN 1000 ELSE StdOverMean(scaled)
        sizes == SelectSeq([i \in 1..n |-> conns[i].bytes], LAMBDA b : b > 0)
        destPorts == SelectSeq([i \in 1..n |-> conns[i].dest_port], LAMBDA q : q # 0)
        uniquePorts == Cardinality({destPorts[i] : i \in 1..Len(destPorts)})
        portCount(q) == Cardinality({i \in 1..Len(destPorts) : destPorts[i] = q})
        mostCommon == CHOOSE c \in {portCount(destPorts[i]) : i \in 1..Len(destPorts)} :
                          \A i \in 1..Len(destPorts) : portCount(destPorts[i]) <= c IN
    WithSignatures(
        [connectionCount |-> n,
         uniqueDestinations |-> Cardinality({conns[i].dest_ip : i \in 1..n} \ {<<>>}),
         meanInterval |-> total \div (n - 1),
         jitter |-> jitter,
         periodicity |-> IF n - 1 < 3 \/ total = 0 THEN 0 ELSE CalculatePeriodicity(jitter),
         timingEntropy |-> EntropyOf([i \in 1..(n - 1) |-> (intervals[i] + 500) \div 1000]),
         payloadConsistency |-> IF Len(sizes) = 0 THEN 0
                                ELSE CalculatePeriodicity(StdOverMean(sizes)),
         portDiversity |-> IF Len(destPorts) = 0 THEN 0
                           ELSE ISqrt((uniquePorts * uniquePorts * 1000000) \div Len(destPorts),
                                      0, 46340),
         portConcentration |-> IF Len(destPorts) = 0 THEN 0
                               ELSE (mostCommon * 1000) \div Len(destPorts),
         durationHours |-> TimeDiff(timestamps[n], timestamps[1]) \div 3600])

\* Utils.isPrivateIP (v2.1.1): adds link-local; a missing address is private.
IsPrivateIPV211(ip) == IsPrivateIPV20(ip) \/ (ip[1] = 169 /\ ip[2] = 254)

\* Utils.extractUniqueIPs (v2.1.1): destination and source addresses that
\* isPrivateIP lets through, in order of first appearance.
ExtractUniqueIPs(conns) ==
    LET cand == [j \in 1..(2 * Len(conns)) |->
                    IF j % 2 = 1 THEN conns[(j + 1) \div 2].dest_ip ELSE conns[j \div 2].src_ip]
        isFirst(j) == /\ ~IsPrivateIPV211(cand[j])
                      /\ \A k \in 1..(j - 1) : cand[k] # cand[j]
        firsts == SelectSeq([j \in 1..Len(cand) |-> j], isFirst) IN
    [k \in 1..Len(firsts) |-> cand[firsts[k]]]

\* ThreatIntel.matchCIDR (v2.1.1): mask = -1 << (32 - bits).  A shift count
\* is taken modulo 32, so the mask of /0 is -1 << 0, all ones.
MatchCIDR(ip, cidr) ==
    LET count == (32 - cidr.bits) % 32
        mask == [i \in 1..32 |-> IF i > 32 - count THEN 0 ELSE 1] IN
    BitAnd(IpToNumber(ip), mask) = BitAnd(IpToNumber(cidr.range), mask)

\* ThreatIntel.checkCustomRules (v2.1.1): the match of the first rule of type
\* 'ip' whose value is the ip or of type 'cidr' whose range holds it, as a
\* one-element sequence, <<>> for null.
CheckCustomRules(rules, ip) ==
    LET hits == SelectSeq(rules, LAMBDA r : \/ (r.type = "ip" /\ r.value = ip)
                                            \/ (r.type = "cidr" /\ MatchCIDR(ip, r.value))) IN
    IF Len(hits) = 0 THEN <<>>
    ELSE <<[source |-> "Custom Rules", ip |-> ip, malware |-> "Custom Detection",
            confidence |-> IF hits[1].confidence = 0 THEN 70 ELSE hits[1].confidence]>>

\* The property key a number is converted to in mapping[level].
PropertyKey(level) == IF level = 90 THEN "90" ELSE "number"

\* ThreatIntel.lookupThreatFox (v2.1.1) with an empty cache: every failure is
\* caught and answered with null (<<>>).  A wrong-shaped answer passes the
\* test on data.data.length and its first character is taken as the IOC.
LookupThreatFox(ip, feed) ==
    CASE feed = "hit" ->
             <<[ThreatFoxMatch(FeedIOC.malware_printable,
                               PropertyKey(FeedIOC.confidence_level)) EXCEPT !.ip = ip]>>
      [] feed = "wrong_shape" -> <<[ThreatFoxMatch("Unknown", "undefined") EXCEPT !.ip = ip]>>
      [] OTHER -> <<>>

\* lookupIP with the custom-rule match kept only when the feed answered
LookupIPFeedFirst(ip, ti) ==
    IF ti.status = "online" /\ ti.feed \in {"http_error", "timeout", "malformed"} THEN <<>>
    ELSE CheckCustomRules(ti.customRules, ip)
         \o (IF ti.status = "online" THEN LookupThreatFox(ip, ti.feed) ELSE <<>>)

\* ThreatIntel.lookupIP: custom rules first, the feed only when
\* stats.status is 'online'.
LookupIP(ip, ti) ==
    CheckCustomRules(ti.customRules, ip)
    \o (IF ti.status = "online" THEN LookupThreatFox(ip, ti.feed) ELSE <<>>)

RECURSIVE Flat(_)
\* allResults.flat()
Flat(ss) == IF ss = <<>> THEN <<>> ELSE Head(ss) \o Flat(Tail(ss))

\* checkThreatIntel without the slice to config.maxIPs
CheckThreatIntelUncapped(conns, ti) ==
    LET ips == ExtractUniqueIPs(conns) IN
    [checked |-> Len(ips),
     ips |-> ips,
     matches |-> Flat([k \in 1..Len(ips) |-> LookupIP(ips[k], ti)])]

\* Detector.checkThreatIntel: ThreatIntel.lookupIP for each of the first
\* config.maxIPs unique addresses.
CheckThreatIntel(conns, ti) ==
    LET all == ExtractUniqueIPs(conns)
        ips == SubSeq(all, 1, IF Len(all) < ti.maxIPs THEN Len(all) ELSE ti.maxIPs) IN
    [checked |-> Len(ips),
     ips |-> ips,
     matches |-> Flat([k \in 1..Len(ips) |-> LookupIP(ips[k], ti)])]

\* C2DetectorApp.analyzeData up to the DetectionResult, which carries
\* threatIntel = {checked, matches}.
AnalyzeDataOutcome(conns, ti) ==
    LET v == ValidateJSON(conns) IN
    IF ~v.valid
    THEN [status |-> "error", stage |-> "validation", message |-> v.error]
    ELSE LET threatIntel == CheckThreatIntel(v.data, ti)
             out == AnalyzeOutcome(ExtractFeaturesV211(v.data), threatIntel.matches) IN
         [k \in DOMAIN out \cup {"threatIntel"} |->
             IF k = "threatIntel"
             THEN [checked |-> threatIntel.checked, matches |-> threatIntel.matches]
             ELSE out[k]]

\* HistoryManager.maxHistorySize
MaxHistorySize == 100

\* HistoryManager.addAnalysis followed by saveHistory: newest first, cut to
\* maxHistorySize entries.
AddAnalysis(h, analysis) ==
    LET all == <<[score |-> analysis.score, classification |-> analysis.classification]>> \o h IN
    IF Len(all) > MaxHistorySize THEN SubSeq(all, 1, MaxHistorySize) ELSE all

(***************************************************************************)
(* Inputs of the analyses                                                  *)
(***************************************************************************)

\* Most connections in an analysed list.
MaxConnections == 3

TimestampAliases == {"timestamp", "time", "ts", "epoch", "time_unix"}

\* Timestamps in epoch seconds: 1700000000 and 1700000060.
TimestampValues == {<<1700000, 0>>, <<1700000, 60>>}

\* The same instants in epoch milliseconds.
MillisecondValues == {<<1700000000, 0>>, <<1700000060, 0>>}

PublicIP == <<203, 0, 113, 5>>

\* A connection with its timestamp under the given alias ("" for none) and
\* with or without a destination address; every record carries 512 bytes.
Connection(alias, ts, withDest) ==
    [k \in {"bytes"} \cup (IF alias = "" THEN {} ELSE {alias})
           \cup (IF withDest THEN {"dest_ip"} ELSE {}) |->
        IF k = "bytes" THEN 512 ELSE IF k = "dest_ip" THEN PublicIP ELSE ts]

ConnectionSet ==
    {Connection(a, t, TRUE) : a \in TimestampAliases, t \in TimestampValues}
    \cup {Connection("timestamp", t, FALSE) : t \in TimestampValues}
    \cup {Connection("", NoTime, d) : d \in BOOLEAN}

\* The well-formed records of a capture taken in milliseconds.
MillisecondConnectionSet == {Connection("timestamp", t, TRUE) : t \in MillisecondValues}

\* A capture keeps one time unit.
ConnectionLists ==
    UNION {[1..n -> ConnectionSet] \cup [1..n -> MillisecondConnectionSet] :
           n \in 0..MaxConnections}

\* No custom rule, or one 'ip' rule (without a confidence) on the public address.
IntelSet == {NoIntel,
             [NoIntel EXCEPT
                 !.customRules = <<[type |-> "ip", value |-> PublicIP, confidence |-> 0]>>]}

(***************************************************************************)
(* Analyses: one run of a pipeline on one connection list                  *)
(***************************************************************************)

Init ==
    /\ engine \in {"analyzeConnections", "analyzeData"}
    /\ connections \in ConnectionLists
    /\ intel \in IntelSet
    /\ features = <<>>
    /\ matches = <<>>
    /\ result = NoResult
    /\ history = <<>>
    /\ lookups = <<>>
    /\ storage = <<>>
    /\ now = StartTime
    /\ NoAsync
    /\ normalization = DefaultNormalization
    /\ predictions = <<>>

\* analyzeConnections(connections, fileName); currentAnalysis = result
AnalyzeConnections ==
    /\ engine = "analyzeConnections"
    /\ intel.status # "initializing"
    /\ result = NoResult
    /\ LET out == AnalyzeConnectionsOutcome(connections, intel)
           extracted == ~(out.status = "error" /\ out.stage \in {"validation", "extraction"}) IN
       /\ result' = out
       /\ features' = IF extracted THEN ExtractFeaturesV20(connections) ELSE <<>>
       /\ matches' = IF extracted THEN CheckConnections(connections, intel) ELSE <<>>
       /\ lookups' = IF extracted THEN IpsToCheck(connections, intel) ELSE <<>>
    /\ UNCHANGED <<asyncVars, engine, connections, intel, history, storage, now, mlVars>>

\* C2DetectorApp.analyzeData(jsonData), HistoryManager.addAnalysis included
AnalyzeData ==
    /\ engine = "analyzeData"
    /\ intel.status # "initializing"
    /\ result = NoResult
    /\ LET out == AnalyzeDataOutcome(connections, intel)
           data == ValidateJSON(connections).data IN
       /\ result' = out
       /\ features' = IF out.status = "ok" THEN ExtractFeaturesV211(data) ELSE <<>>
       /\ matches' = IF out.status = "ok" THEN CheckThreatIntel(data, intel).matches ELSE <<>>
       /\ lookups' = IF out.status = "ok" THEN CheckThreatIntel(data, intel).ips ELSE <<>>
       /\ history' = IF out.status = "ok" THEN AddAnalysis(history, out) ELSE history
       /\ storage' = IF out.status = "ok" THEN AddAnalysis(history, out) ELSE storage
    /\ UNCHANGED <<asyncVars, engine, connections, intel, now, mlVars>>

Next == AnalyzeConnections \/ AnalyzeData

Spec == Init /\ [][Next]_vars

(***************************************************************************)
(* Threat-intel runs: initialization of the resolver, then one analysis of *)
(* well-formed connections to and from private and public addresses        *)
(***************************************************************************)

\* Most connections in a list of a threat-intel run.
MaxIntelConnections == 2

SecondPublicIP == <<198, 51, 100, 7>>

\* One address in each private or reserved range, and two public ones.
DestinationSet ==
    {PublicIP, SecondPublicIP, <<10, 0, 0, 5>>, <<172, 16, 0, 1>>, <<192, 168, 1, 10>>,
     <<127, 0, 0, 1>>, <<169, 254, 1, 1>>}

\* A well-formed connection; src is <<>> for a record without source address.
IntelConnection(dest, src) ==
    [k \in {"timestamp", "bytes", "dest_ip"} \cup (IF src = <<>> THEN {} ELSE {"src_ip"}) |->
        CASE k = "timestamp" -> <<1700000, 0>>
          [] k = "bytes" -> 512
          [] k = "dest_ip" -> dest
          [] OTHER -> src]

IntelConnectionSet ==
    {IntelConnection(d, <<>>) : d \in DestinationSet}
    \cup {IntelConnection(d, SecondPublicIP) : d \in {PublicIP, <<10, 0, 0, 5>>}}

\* No custom rule, or an 'ip' rule of confidence 90 for each public address;
\* config.maxIPs is the default with every feed outcome, or 1.
IntelConfigurations ==
    LET rules == {<<>>, <<[type |-> "ip", value |-> PublicIP, confidence |-> 90],
                          [type |-> "ip", value |-> SecondPublicIP, confidence |-> 90]>>} IN
    {[customRules |-> r, status |-> "initializing", maxIPs |-> 20, feed |-> f] :
        r \in rules, f \in FeedOutcomes}
    \cup {[customRules |-> r, status |-> "initializing", maxIPs |-> 1, feed |-> "no_hit"] :
             r \in rules}

InitIntel ==
    /\ engine \in {"analyzeConnections", "analyzeData"}
    /\ connections \in UNION {[1..n -> IntelConnectionSet] : n \in 0..MaxIntelConnections}
    /\ intel \in IntelConfigurations
    /\ features = <<>>
    /\ matches = <<>>
    /\ result = NoResult
    /\ history = <<>>
    /\ lookups = <<>>
    /\ storage = <<>>
    /\ now = StartTime
    /\ NoAsync
    /\ normalization = DefaultNormalization
    /\ predictions = <<>>

\* ThreatIntel.initialize.  v2.1.1: stats.status is 'online' when the test
\* request succeeds through the proxy or directly, else 'offline'.  v2.1:
\* cache.status is 'active' whether or not updateThreatFox succeeded.
Initialize ==
    /\ intel.status = "initializing"
    /\ \E reachable \in BOOLEAN :
          intel' = [intel EXCEPT !.status =
                       IF engine = "analyzeConnections" THEN "active"
                       ELSE IF reachable THEN "online" ELSE "offline"]
    /\ UNCHANGED <<asyncVars, engine, features, matches, result, connections, history, lookups, storage, now, mlVars>>

NextIntel == Initialize \/ AnalyzeConnections \/ AnalyzeData

SpecIntel == InitIntel /\ [][NextIntel]_vars

(***************************************************************************)
(* Custom-rule runs: rules are added, removed, updated and imported, and   *)
(* at the end one address is checked against the rules                     *)
(***************************************************************************)

\* The resolver without rules and one connection whose destination has its
\* first octet below or from 128.
InitRules ==
    /\ engine \in {"analyzeConnections", "analyzeData"}
    /\ connections \in
          {<<IntelConnection(ip, <<>>)>> :
              ip \in {<<8, 8, 8, 8>>, <<8, 8, 4, 4>>, <<10, 0, 0, 5>>, PublicIP,
                      <<203, 0, 113, 133>>, SecondPublicIP, <<255, 255, 255, 255>>}}
    /\ intel = [NoIntel EXCEPT !.status = "offline"]
    /\ features = <<>>
    /\ matches = <<>>
    /\ result = NoResult
    /\ history = <<>>
    /\ lookups = <<>>
    /\ storage = <<>>
    /\ now = StartTime
    /\ NoAsync
    /\ normalization = DefaultNormalization
    /\ predictions = <<>>

\* Most operations on a store (history, custom rules) and most runs started
\* in one behaviour; the clock advances with each.
MaxOperations == 3

\* Most rules in the rule set.
MaxRules == 1

\* The rules handed to addCustomRule: every CIDR rule of six networks, an
\* 'ip' rule, a rule with an empty value, and an 'ip' rule whose value is no
\* address.
RuleInputs ==
    {[type |-> "cidr", value |-> [range |-> range, bits |-> bits], confidence |-> 90] :
        range \in {<<0, 0, 0, 0>>, <<8, 8, 8, 0>>, <<10, 0, 0, 0>>, <<128, 0, 0, 0>>,
                   <<203, 0, 113, 0>>, PublicIP},
        bits \in 0..32}
    \cup {[type |-> "ip", value |-> PublicIP, confidence |-> 90],
          [type |-> "ip", value |-> <<>>, confidence |-> 90],
          [type |-> "ip", value |-> <<256, 0, 0, 1>>, confidence |-> 90]}

\* ThreatIntel.isValidIP: four parts, each a number in 0..255.
IsValidIP(ip) == Len(ip) = 4 /\ \A i \in 1..4 : ip[i] >= 0 /\ ip[i] <= 255

\* ThreatIntel.isValidCIDR
IsValidCIDR(cidr) == IsValidIP(cidr.range) /\ cidr.bits >= 0 /\ cidr.bits <= 32

\* The test of addCustomRule (v2.1.1) before anything is changed; the v2.1
\* resolver accepts every rule.
RuleAccepted(rule) ==
    \/ engine = "analyzeConnections"
    \/ /\ rule.value # <<>>
       /\ rule.type = "ip" => IsValidIP(rule.value)
       /\ rule.type = "cidr" => IsValidCIDR(rule.value)

\* What localStorage.setItem does.
StoreOutcomes == {"stored", "error"}

\* saveCustomRules: the rules are written under 'c2detector_custom_rules';
\* an error of setItem is caught and logged.
SaveCustomRules(rules, stored, outcome) == IF outcome = "stored" THEN rules ELSE stored

\* ThreatIntel.addCustomRule(rule): the rule is tested (v2.1.1), given an id,
\* pushed and saved.
AddCustomRule ==
    /\ Len(intel.customRules) < MaxRules
    /\ now < StartTime + MaxOperations
    /\ lookups = <<>>
    /\ \E rule \in RuleInputs : \E outcome \in StoreOutcomes :
          IF RuleAccepted(rule)
          THEN LET rules == Append(intel.customRules, rule @@ [id |-> now]) IN
               /\ intel' = [intel EXCEPT !.customRules = rules]
               /\ storage' = SaveCustomRules(rules, storage, outcome)
               /\ result' = [status |-> "returned", op |-> "addCustomRule"]
          ELSE /\ result' = [status |-> "thrown", op |-> "addCustomRule"]
               /\ UNCHANGED <<intel, storage>>
    /\ now' = now + 1
    /\ UNCHANGED <<asyncVars, engine, features, matches, connections, history, lookups,
                   mlVars>>

\* ThreatIntel.removeCustomRule(ruleId): v2.1.1 saves when the rule was found,
\* v2.1 filters and saves in any case.
RemoveCustomRule ==
    /\ now < StartTime + MaxOperations
    /\ lookups = <<>>
    /\ \E ruleId \in StartTime..(StartTime + 1) : \E outcome \in StoreOutcomes :
          LET rules == SelectSeq(intel.customRules, LAMBDA r : r.id # ruleId)
              found == rules # intel.customRules IN
          /\ intel' = [intel EXCEPT !.customRules = rules]
          /\ storage' = IF found \/ engine = "analyzeConnections"
                        THEN SaveCustomRules(rules, storage, outcome) ELSE storage
          /\ result' = [status |-> "returned", op |-> "removeCustomRule"]
    /\ now' = now + 1
    /\ UNCHANGED <<asyncVars, engine, features, matches, connections, history, lookups,
                   mlVars>>

\* ThreatIntel.updateCustomRule(ruleId, updates) of the v2.1 resolver, with
\* updates = {confidence: 50}.
UpdateCustomRule ==
    /\ engine = "analyzeConnections"
    /\ now < StartTime + MaxOperations
    /\ lookups = <<>>
    /\ \E ruleId \in StartTime..(StartTime + 1) : \E outcome \in StoreOutcomes :
          LET rules == [i \in 1..Len(intel.customRules) |->
                           IF intel.customRules[i].id = ruleId
                           THEN [intel.customRules[i] EXCEPT !.confidence = 50]
                           ELSE intel.customRules[i]]
              found == \E i \in 1..Len(intel.customRules) : intel.customRules[i].id = ruleId IN
          /\ intel' = [intel EXCEPT !.customRules = rules]
          /\ storage' = IF found THEN SaveCustomRules(rules, storage, outcome) ELSE storage
          /\ result' = [status |-> "returned", op |-> "updateCustomRule"]
    /\ now' = now + 1
    /\ UNCHANGED <<asyncVars, engine, features, matches, connections, history, lookups,
                   mlVars>>

\* The texts handed to importRules, parsed: an array with one rule, an array
\* with a rule that has no value, and an object that is no array.
RuleImports ==
    {[isArray |-> TRUE,
      rules |-> <<[type |-> "ip", value |-> SecondPublicIP, confidence |-> 80, id |-> 7]>>],
     [isArray |-> TRUE,
      rules |-> <<[type |-> "ip", value |-> <<>>, confidence |-> 80, id |-> 7]>>],
     [isArray |-> FALSE, rules |-> <<>>]}

\* ThreatIntel.importRules(jsonString): v2.1.1 throws on what is no array and
\* on a rule without type or value; v2.1 takes every array and returns false
\* otherwise.
ImportRules ==
    /\ now < StartTime + MaxOperations
    /\ lookups = <<>>
    /\ \E imported \in RuleImports : \E outcome \in StoreOutcomes :
          LET wellFormed == /\ imported.isArray
                            /\ \A i \in 1..Len(imported.rules) : imported.rules[i].value # <<>> IN
          IF wellFormed \/ (imported.isArray /\ engine = "analyzeConnections")
          THEN /\ intel' = [intel EXCEPT !.customRules = imported.rules]
               /\ storage' = SaveCustomRules(imported.rules, storage, outcome)
               /\ result' = [status |-> "returned", op |-> "importRules"]
          ELSE /\ result' = [status |-> IF engine = "analyzeData" THEN "thrown" ELSE "returned",
                             op |-> "importRules refused"]
               /\ UNCHANGED <<intel, storage>>
    /\ now' = now + 1
    /\ UNCHANGED <<asyncVars, engine, features, matches, connections, history, lookups,
                   mlVars>>

\* ThreatIntel.checkCustomRules(ip) on the destination of the connection, by
\* the resolver of the engine: v2.1 under analyzeConnections, v2.1.1 under
\* analyzeData.
CheckAddress ==
    /\ intel.customRules # <<>>
    /\ lookups = <<>>
    /\ LET ip == connections[1].dest_ip IN
          /\ lookups' = <<ip>>
          /\ matches' = IF engine = "analyzeConnections"
                        THEN CheckCustomRulesV21(intel.customRules, ip)
                        ELSE CheckCustomRules(intel.customRules, ip)
    /\ UNCHANGED <<asyncVars, engine, features, result, connections, intel, history, storage, now, mlVars>>

NextRules ==
    \/ AddCustomRule
    \/ RemoveCustomRule
    \/ UpdateCustomRule
    \/ ImportRules
    \/ CheckAddress

SpecRules == InitRules /\ [][NextRules]_vars

(***************************************************************************)
(* History runs: the operations of HistoryManager on the stored history.   *)
(* An entry is [id, timestamp]; the HistoryManager of js/detector.js       *)
(* (v2.1) runs under analyzeConnections, that of js/history-manager.js     *)
(* (v2.1.1) under analyzeData.                                             *)
(***************************************************************************)

\* The entries with timestamps (and ids) hi down to lo, newest first.
EntriesDown(hi, lo) == [i \in 1..(hi - lo + 1) |-> [id |-> hi - i + 1, timestamp |-> hi - i + 1]]

\* this.history.sort((a, b) => new Date(b.timestamp) - new Date(a.timestamp))
\* on entries with distinct timestamps.
SortNewestFirst(h) ==
    LET placed == {<<1 + Cardinality({k \in 1..Len(h) : h[k].timestamp > h[j].timestamp}),
                     h[j]>> : j \in 1..Len(h)} IN
    [i \in 1..Len(h) |-> (CHOOSE p \in placed : p[1] = i)[2]]

\* What localStorage.setItem does: it stores the text, throws
\* QuotaExceededError once (the retry after the cut to 50 stores), or throws
\* another error.
StorageOutcomes == {"stored", "quota", "error"}

\* HistoryManager.saveHistory (v2.1.1): the pair of this.history and the
\* stored list afterwards.  Under "quota" the first write raises
\* QuotaExceededError and the write after the cut to 50 entries is stored;
\* writes that keep failing are followed call by call in the save runs.
SaveHistory(h, stored, outcome) ==
    LET cut == IF Len(h) > MaxHistorySize THEN SubSeq(h, 1, MaxHistorySize) ELSE h
        half == SubSeq(cut, 1, IF Len(cut) < 50 THEN Len(cut) ELSE 50) IN
    CASE outcome = "stored" -> [history |-> cut, storage |-> cut]
      [] outcome = "quota" -> [history |-> half, storage |-> half]
      [] OTHER -> [history |-> cut, storage |-> stored]

\* HistoryManager.persistHistory (v2.1): a failure is logged only.
PersistHistory(h, stored, outcome) ==
    [history |-> h, storage |-> IF outcome = "stored" THEN h ELSE stored]

\* Nothing stored, or the history of 99 or 100 earlier analyses.
InitHistory ==
    /\ engine \in {"analyzeConnections", "analyzeData"}
    /\ storage \in {<<>>, EntriesDown(99, 1), EntriesDown(MaxHistorySize, 1)}
    /\ now = StartTime
    /\ NoAsync
    /\ history = <<>>
    /\ connections = <<>>
    /\ intel = NoIntel
    /\ features = <<>>
    /\ matches = <<>>
    /\ result = NoResult
    /\ lookups = <<>>
    /\ normalization = DefaultNormalization
    /\ predictions = <<>>

\* HistoryManager.initialize on page load: loadHistory replaces the empty
\* history by the stored list; v2.1.1 sorts it newest first.
LoadHistory ==
    /\ now < StartTime + MaxOperations
    /\ now' = now + 1
    /\ history' = IF engine = "analyzeData" THEN SortNewestFirst(storage) ELSE storage
    /\ UNCHANGED <<asyncVars, engine, features, matches, result, connections, intel, lookups, storage,
                   mlVars>>

\* HistoryManager.saveAnalysis (v2.1): unshift, cut to maxHistorySize,
\* persistHistory.  HistoryManager.addAnalysis (v2.1.1): unshift, saveHistory.
SaveAnalysis ==
    /\ now < StartTime + MaxOperations
    /\ \E outcome \in StorageOutcomes :
          LET all == <<[id |-> now, timestamp |-> now]>> \o history
              after == IF engine = "analyzeConnections"
                       THEN PersistHistory(IF Len(all) > MaxHistorySize
                                           THEN SubSeq(all, 1, MaxHistorySize) ELSE all,
                                           storage, outcome)
                       ELSE SaveHistory(all, storage, outcome) IN
          /\ history' = after.history
          /\ storage' = after.storage
    /\ now' = now + 1
    /\ UNCHANGED <<asyncVars, engine, features, matches, result, connections, intel, lookups, mlVars>>

\* HistoryManager.importHistory of an exported list of 2 or of 101 analyses.
\* v2.1: the imported array replaces the history and is persisted.  v2.1.1:
\* entries with new ids are pushed, then sort and saveHistory.
ImportHistory ==
    /\ now < StartTime + MaxOperations
    /\ now' = now + 1
    /\ \E imported \in {EntriesDown(202, 201), EntriesDown(251, 151)} :
          LET ids == {history[k].id : k \in 1..Len(history)}
              fresh == SelectSeq(imported, LAMBDA a : a.id \notin ids)
              merged == IF engine = "analyzeConnections" THEN imported
                        ELSE SortNewestFirst(history \o fresh) IN
          \E outcome \in StorageOutcomes :
              LET after == IF engine = "analyzeConnections"
                           THEN PersistHistory(merged, storage, outcome)
                           ELSE SaveHistory(merged, storage, outcome) IN
              /\ history' = after.history
              /\ storage' = after.storage
    /\ UNCHANGED <<asyncVars, engine, features, matches, result, connections, intel, lookups, mlVars>>

\* HistoryManager.deleteById (v2.1) / deleteAnalysis (v2.1.1) of the newest
\* or the oldest entry.
DeleteAnalysis ==
    /\ now < StartTime + MaxOperations
    /\ now' = now + 1
    /\ history # <<>>
    /\ \E id \in {history[1].id, history[Len(history)].id}, outcome \in StorageOutcomes :
          LET rest == SelectSeq(history, LAMBDA a : a.id # id)
              after == IF engine = "analyzeConnections"
                       THEN PersistHistory(rest, storage, outcome)
                       ELSE SaveHistory(rest, storage, outcome) IN
          /\ history' = after.history
          /\ storage' = after.storage
    /\ UNCHANGED <<asyncVars, engine, features, matches, result, connections, intel, lookups, mlVars>>

\* HistoryManager.clearHistory
ClearHistory ==
    /\ now < StartTime + MaxOperations
    /\ now' = now + 1
    /\ \E outcome \in StorageOutcomes :
          LET after == IF engine = "analyzeConnections"
                       THEN PersistHistory(<<>>, storage, outcome)
                       ELSE SaveHistory(<<>>, storage, outcome) IN
          /\ history' = after.history
          /\ storage' = after.storage
    /\ UNCHANGED <<asyncVars, engine, features, matches, result, connections, intel, lookups, mlVars>>

NextHistory == LoadHistory \/ SaveAnalysis \/ ImportHistory \/ DeleteAnalysis \/ ClearHistory

SpecHistory == InitHistory /\ [][NextHistory]_vars

(***************************************************************************)
(* Extraction runs: one call of a feature extractor on one valid           *)
(* connection list.  The extractor is the one of docs/js/analyzer.js       *)
(* ("docs"), of js/analyzer.js ("analyzeConnections") or of the v2.1.1     *)
(* analyzer ("analyzeData").                                               *)
(***************************************************************************)

\* Valid records to one address, 60 s apart or at the same instant, without
\* bytes, with 0 or 512 bytes, without destination port or to port 80 or 443.
ExtractionConnectionSet ==
    LET none == [k \in {} |-> 0] IN
    {[timestamp |-> t, dest_ip |-> PublicIP] @@ b @@ q :
        t \in TimestampValues,
        b \in {none, [bytes |-> 0], [bytes |-> 512]},
        q \in {none, [dest_port |-> 80], [dest_port |-> 443]}}

InitExtract ==
    /\ engine \in {"docs", "analyzeConnections", "analyzeData"}
    /\ connections \in UNION {[1..n -> ExtractionConnectionSet] : n \in 2..MaxConnections}
    /\ intel = NoIntel
    /\ features = <<>>
    /\ matches = <<>>
    /\ result = NoResult
    /\ history = <<>>
    /\ lookups = <<>>
    /\ storage = <<>>
    /\ now = StartTime
    /\ NoAsync
    /\ normalization = DefaultNormalization
    /\ predictions = <<>>

\* Analyzer.extractFeatures(connections)
ExtractFeatures ==
    /\ features = <<>>
    /\ features' = CASE engine = "docs" -> ExtractFeaturesDocs(connections)
                     [] engine = "analyzeConnections" -> ExtractFeaturesV20(connections)
                     [] OTHER -> ExtractFeaturesV211(ValidateJSON(connections).data)
    /\ UNCHANGED <<asyncVars, engine, matches, result, mlVars, inputVars>>

SpecExtract == InitExtract /\ [][ExtractFeatures]_vars

(***************************************************************************)
(* Scoring runs: one call of a detection engine on one input               *)
(***************************************************************************)

InitScore ==
    /\ engine \in {"detect", "analyze"}
    /\ \/ engine = "detect" /\ features \in DetectFeatureSet /\ matches \in DetectMatchSet
       \/ engine = "analyze" /\ features \in AnalyzeFeatureSet /\ matches \in AnalyzeMatchSet
    /\ result = NoResult
    /\ normalization = DefaultNormalization
    /\ predictions = <<>>
    /\ connections = <<>>
    /\ intel = NoIntel
    /\ history = <<>>
    /\ lookups = <<>>
    /\ storage = <<>>
    /\ now = StartTime
    /\ NoAsync

\* Detector.detect(features, threatIntelMatches)
Detect ==
    /\ engine = "detect"
    /\ result = NoResult
    /\ result' = DetectOutcome(features, matches)
    /\ UNCHANGED <<asyncVars, engine, features, matches, mlVars, inputVars>>

\* Detector.analyze(features, connections)
Analyze ==
    /\ engine = "analyze"
    /\ result = NoResult
    /\ result' = AnalyzeOutcome(features, matches)
    /\ UNCHANGED <<asyncVars, engine, features, matches, mlVars, inputVars>>

NextScore == Detect \/ Analyze

SpecScore == InitScore /\ [][NextScore]_vars


(***************************************************************************)
(* Properties of the scoring runs                                          *)
(***************************************************************************)

\* C1: the score an engine returns is an integer in 0..100 equal to the sum
\* of the deltas of all triggered factors (reasons of Detector.detect,
\* detectionFactors of Detector.analyze), bounded to [0,100] once, at the end.
C1_ScoreIsClampedSum ==
    result.status = "ok" =>
        /\ result.score \in 0..100
        /\ engine = "detect" =>
              result.score =
                 Clamp100(SumSeq([i \in 1..Len(result.reasons) |-> result.reasons[i].delta]))
        /\ engine = "analyze" =>
              result.score =
                 Clamp100(SumSeq([i \in 1..Len(result.detectionFactors) |->
                                     result.detectionFactors[i].points]))

\* C1 witness: an analyze run whose positive factors exceed 100 and whose
\* benign penalty brings the total back below 100.
C1_Witness ==
    /\ engine = "analyze"
    /\ result.status = "ok"
    /\ LET fs == result.detectionFactors
           pos == SumSeq([i \in 1..Len(fs) |-> IF fs[i].points > 0 THEN fs[i].points ELSE 0])
           all == SumSeq([i \in 1..Len(fs) |-> fs[i].points]) IN
       pos > 100 /\ all < 100 /\ all > 0 /\ result.score = all


\* C2: the classification is CRITICAL iff score >= 80, SUSPICIOUS iff
\* 65 <= score < 80, MONITOR iff 45 <= score < 65 and BENIGN iff score < 45,
\* in every result; the severity tag and the recommendation text of a result
\* belong to the tier of its classification.
C2_ClassificationThresholds ==
    LET expected(s) == IF s >= 80 THEN "CRITICAL" ELSE IF s >= 65 THEN "SUSPICIOUS"
                       ELSE IF s >= 45 THEN "MONITOR" ELSE "BENIGN"
        severityTier(sev) ==
            CASE sev = "critical" -> "CRITICAL" [] sev = "high" -> "SUSPICIOUS"
              [] sev = "medium" -> "MONITOR" [] sev = "info" -> "BENIGN"
              [] OTHER -> "none"
        textTier(txt) ==
            CASE txt \in {"IMMEDIATE ACTION", "IMMEDIATE ACTION REQUIRED"} -> "CRITICAL"
              [] txt \in {"INVESTIGATE IMMEDIATELY", "URGENT INVESTIGATION NEEDED"} -> "SUSPICIOUS"
              [] txt \in {"ENHANCED MONITORING", "ENHANCED MONITORING RECOMMENDED"} -> "MONITOR"
              [] txt = "APPEARS BENIGN" -> "BENIGN"
              [] OTHER -> "none" IN
    result.status = "ok" =>
        /\ result.classification = expected(result.score)
        /\ severityTier(result.severity) = result.classification
        /\ textTier(result.recommendation) = result.classification

\* C2 witness: a result sitting exactly on the 65 breakpoint (SUSPICIOUS,
\* high) -- both engines produce one, as well as the 80 and 45 breakpoints.
C2_Witness ==
    /\ result.status = "ok"
    /\ result.score = 65
    /\ result.classification = "SUSPICIOUS"
    /\ result.severity = "high"


\* C3: with at least one threat-intel match the threat-intelligence
\* contribution to the score is 45 + 25 = 70 when the highest match confidence
\* is >= 75 and 45 + 15 = 60 otherwise, whatever the number of matches; it is
\* 0 without a match.
C3_ThreatIntelContribution ==
    LET conf(m) == IF engine = "detect" THEN m.confidence_level ELSE m.confidence
        highest == MaxSeq([i \in 1..Len(matches) |-> conf(matches[i])])
        expected == IF Len(matches) = 0 THEN 0 ELSE IF highest >= 75 THEN 70 ELSE 60
        contribution ==
            IF engine = "detect"
            THEN SumSeq([i \in 1..Len(result.reasons) |->
                            IF result.reasons[i].reason \in {"ti_high_confidence", "ti_match"}
                            THEN result.reasons[i].delta ELSE 0])
            ELSE SumSeq([i \in 1..Len(result.detectionFactors) |->
                            IF result.detectionFactors[i].factor = "Threat Intelligence Match"
                            THEN result.detectionFactors[i].points ELSE 0]) IN
    result.status = "ok" => contribution = expected


\* C4: exactly one band per category contributes.  Periodicity adds 35 if
\* > 0.80, else 25 if > 0.70, else 15 if > 0.60, else 0; jitter adds 30 if
\* < 0.08, else 20 if < 0.15, else 10 if < 0.25, else 0; payload consistency
\* adds 20 if > 0.90, else 15 if > 0.80, else 0.  All comparisons are strict.
C4_BehaviouralBands ==
    LET periodicityNames == {"extreme_periodicity", "strong_periodicity", "notable_periodicity",
                             "Extreme Periodicity", "High Periodicity", "Moderate Periodicity"}
        jitterNames == {"extremely_low_jitter", "low_jitter", "consistent_timing",
                        "Extremely Low Jitter", "Low Jitter", "Consistent Timing"}
        payloadNames == {"very_consistent_payload", "consistent_payload",
                         "Very Consistent Payloads", "Consistent Payloads"}
        scored == IF engine = "detect"
                  THEN [i \in 1..Len(result.reasons) |->
                           [name |-> result.reasons[i].reason, pts |-> result.reasons[i].delta]]
                  ELSE [i \in 1..Len(result.detectionFactors) |->
                           [name |-> result.detectionFactors[i].factor,
                            pts |-> result.detectionFactors[i].points]]
        count(names) == Cardinality({i \in 1..Len(scored) : scored[i].name \in names})
        total(names) == SumSeq([i \in 1..Len(scored) |->
                                   IF scored[i].name \in names THEN scored[i].pts ELSE 0])
        p == features.periodicity
        j == features.jitter
        c == IF engine = "detect" THEN features.bytes_consistency
             ELSE features.payloadConsistency IN
    result.status = "ok" =>
        /\ count(periodicityNames) <= 1 /\ count(jitterNames) <= 1 /\ count(payloadNames) <= 1
        /\ total(periodicityNames) =
              (IF p > 800 THEN 35 ELSE IF p > 700 THEN 25 ELSE IF p > 600 THEN 15 ELSE 0)
        /\ total(jitterNames) =
              (IF j < 80 THEN 30 ELSE IF j < 150 THEN 20 ELSE IF j < 250 THEN 10 ELSE 0)
        /\ total(payloadNames) = (IF c > 900 THEN 20 ELSE IF c > 800 THEN 15 ELSE 0)

\* C4 witness: an analyze run with jitter exactly 0.08 and payload
\* consistency exactly 0.90, scored in the lower bands (20 and 15).
C4_Witness ==
    /\ engine = "analyze"
    /\ result.status = "ok"
    /\ features.jitter = 80
    /\ features.payloadConsistency = 900
    /\ \E i \in 1..Len(result.detectionFactors) :
          result.detectionFactors[i] = [factor |-> "Low Jitter", points |-> 20]
    /\ \E i \in 1..Len(result.detectionFactors) :
          result.detectionFactors[i] = [factor |-> "Consistent Payloads", points |-> 15]


\* C5: every benign indicator is subtracted whenever its own condition holds,
\* independently of the others: mean interval < 3 s subtracts 25, interval
\* CV > 0.70 subtracts 20, more than 10 unique destination IPs subtracts 15,
\* time diversity > 0.7 subtracts 10; the penalties of all conditions met add up.
C5_BenignIndicatorsIndependent ==
    LET f == features
        v20 == engine = "detect"
        meanMs == IF v20 THEN f.mean_interval ELSE f.meanInterval
        cv == IF v20 THEN f.cv_interval ELSE f.jitter
        dests == IF v20 THEN f.unique_dest_ips ELSE f.uniqueDestinations
        diversity == IF v20 THEN f.time_diversity ELSE 0
        expected == (IF meanMs < 3000 THEN -25 ELSE 0) + (IF cv > 700 THEN -20 ELSE 0)
                    + (IF dests > 10 THEN -15 ELSE 0) + (IF diversity > 700 THEN -10 ELSE 0)
        penalty ==
            IF v20
            THEN SumSeq([i \in 1..Len(result.reasons) |->
                            IF result.reasons[i].delta < 0 THEN result.reasons[i].delta ELSE 0])
            ELSE SumSeq([i \in 1..Len(result.detectionFactors) |->
                            IF result.detectionFactors[i].factor = "Benign Indicators"
                            THEN result.detectionFactors[i].points ELSE 0]) IN
    result.status = "ok" => penalty = expected


\* C6: of two feature vectors that differ only in jitter (same other
\* features, same matches) the one with the lower jitter never gets the lower
\* final score -- through the jitter bands, the framework signatures, the
\* benign penalties and the ML models alike; in particular going from 0.30 to
\* 0.05 never decreases the score.  Each result is compared with the score of
\* every higher jitter: with jitter alone replaced, with the fields the
\* extractor derives from jitter (cv_interval, frameworkSignatures) recomputed,
\* and with the v2.1.1 periodicity recomputed as well.
C6_MonotoneInJitter ==
    LET higher == {j \in JitterValues \cup JitterValuesV211 : j > features.jitter}
        base(f) == [k \in DOMAIN f \ {"frameworkSignatures"} |-> f[k]]
        detectVariants(j) ==
            {[features EXCEPT !.jitter = j],
             [features EXCEPT !.jitter = j, !.cv_interval = j]}
        analyzeVariants(j) ==
            {[features EXCEPT !.jitter = j],
             WithSignatures(base([features EXCEPT !.jitter = j])),
             WithSignatures(base([features EXCEPT !.jitter = j,
                                                  !.periodicity = CalculatePeriodicity(j)]))} IN
    result.status = "ok" =>
        \A j \in higher :
            IF engine = "detect"
            THEN \A g \in detectVariants(j) : DetectOutcome(g, matches).score <= result.score
            ELSE \A g \in analyzeVariants(j) : AnalyzeOutcome(g, matches).score <= result.score

\* C6 witness: an analyze result for jitter 0.05 that is strictly above the
\* score the same vector gets with jitter 0.30.
C6_Witness ==
    /\ engine = "analyze"
    /\ result.status = "ok"
    /\ features.jitter = 50
    /\ AnalyzeOutcome([features EXCEPT !.jitter = 300], matches).score < result.score


(***************************************************************************)
(* Properties of the ML calls                                              *)
(***************************************************************************)

\* C7: determinism -- the ML scorer's output for a given feature vector never
\* depends on earlier calls (other predict calls, trainOnHistory): any two
\* predict calls on the same feature vector return the same output.
C7_PredictIndependentOfHistory ==
    \A i, k \in 1..Len(predictions) :
        predictions[i].features = predictions[k].features =>
            predictions[i].output = predictions[k].output

(***************************************************************************)
(* Properties of the analyses                                              *)
(***************************************************************************)

\* C8: minimum-data guard.  A list of fewer than 2 connections is rejected by
\* validation before any feature is extracted, and a list of exactly 2
\* connections that name their destination and carry distinct timestamps in
\* the field timestamp produces a result with a score in 0..100 and a
\* classification.
C8_MinimumDataGuard ==
    result.status # "none" =>
        /\ Len(connections) < 2 =>
              result.status = "error" /\ result.stage = "validation" /\ features = <<>>
        /\ ( /\ Len(connections) = 2
             /\ \A i \in 1..2 : {"timestamp", "dest_ip"} \subseteq DOMAIN connections[i]
             /\ connections[1].timestamp # connections[2].timestamp )
           => /\ result.status = "ok"
              /\ result.score \in 0..100
              /\ result.classification \in {"BENIGN", "MONITOR", "SUSPICIOUS", "CRITICAL"}

\* C9: only input validation fails an analysis: an analysis that ends in an
\* error ended in validation, so every list that validation accepts gets a
\* detection result.
C9_OnlyValidationFails ==
    (result.status = "error") => (result.stage = "validation")

\* C10: timestamp aliases.  A list whose records all carry their timestamp
\* under one of timestamp, time, ts, epoch, time_unix is analysed with the
\* outcome of the same list with that field named timestamp.
C10_TimestampAliases ==
    \A a \in TimestampAliases :
        ( /\ result.status # "none"
          /\ \A i \in 1..Len(connections) : a \in DOMAIN connections[i] )
        => LET renamed == [i \in 1..Len(connections) |->
                              [k \in (DOMAIN connections[i] \ {a}) \cup {"timestamp"} |->
                                  IF k = "timestamp" THEN connections[i][a]
                                  ELSE connections[i][k]]] IN
           result = IF engine = "analyzeConnections"
                    THEN AnalyzeConnectionsOutcome(renamed, intel)
                    ELSE AnalyzeDataOutcome(renamed, intel)

\* C11: timestamp unit independence.  A capture whose records carry epoch
\* seconds (below 10^10) in the field timestamp gets the features and the
\* outcome of the same capture given in epoch milliseconds.
C11_UnitIndependence ==
    ( /\ result.status # "none"
      /\ \A i \in 1..Len(connections) :
            /\ "timestamp" \in DOMAIN connections[i]
            /\ connections[i].timestamp[1] < 10000000 )
    => LET inMs == [i \in 1..Len(connections) |->
                       [connections[i] EXCEPT
                           !.timestamp = <<@[1] * 1000 + @[2], 0>>]] IN
       IF engine = "analyzeConnections"
       THEN /\ result = AnalyzeConnectionsOutcome(inMs, intel)
            /\ result.status = "ok" => features = ExtractFeaturesV20(inMs)
       ELSE /\ result = AnalyzeDataOutcome(inMs, intel)
            /\ result.status = "ok" => features = ExtractFeaturesV211(ValidateJSON(inMs).data)

(***************************************************************************)
(* Properties of the threat-intel runs                                     *)
(***************************************************************************)

\* C12: a failing feed is not fatal.  Whatever the feed request does, an
\* analysis of valid connections by analyzeData returns a result, and for
\* every address that was looked up and that an 'ip' rule names, the matches
\* contain the custom-rule match for that address (in both resolvers).
C12_FeedFailureNonFatal ==
    (result.status # "none" /\ Len(connections) >= 2)
    => /\ engine = "analyzeData" => result.status = "ok"
       /\ \A i \in 1..Len(lookups) :
             (\E j \in 1..Len(intel.customRules) :
                 intel.customRules[j].type = "ip" /\ intel.customRules[j].value = lookups[i])
             => \E k \in 1..Len(matches) :
                   /\ matches[k].ip = lookups[i]
                   /\ IF engine = "analyzeData" THEN matches[k].source = "Custom Rules"
                      ELSE \E x \in 1..Len(matches[k].sources) :
                              matches[k].sources[x].source = "Custom Rules"

\* An analyzeData run in which the feed request timed out while the resolver
\* was online, and the looked-up address is named by a custom rule.
C12_Witness ==
    /\ engine = "analyzeData"
    /\ result.status = "ok"
    /\ intel.status = "online"
    /\ intel.feed = "timeout"
    /\ Len(lookups) > 0
    /\ Len(matches) > 0

\* C13: degraded mode is recorded.  When the resolver found the feed
\* unreachable at initialization, or a feed request of the analysis failed
\* (non-2xx, timeout, malformed or wrong-shaped answer), the resolver's
\* status is not the healthy one and the result differs from the result of
\* the same analysis with a reachable feed that lists nothing, i.e. it
\* carries some annotation of the degradation.
C13_DegradedModeRecorded ==
    LET failed == /\ Len(lookups) > 0
                  /\ intel.feed \in {"http_error", "timeout", "malformed", "wrong_shape"}
                  /\ engine = "analyzeData" => intel.status = "online"
        healthy == [intel EXCEPT !.feed = "no_hit",
                                 !.status = IF engine = "analyzeData" THEN "online" ELSE @] IN
    (result.status = "ok" /\ (failed \/ intel.status = "offline"))
    => /\ failed => intel.status \notin {"online", "active"}
       /\ result # (IF engine = "analyzeData" THEN AnalyzeDataOutcome(connections, healthy)
                    ELSE AnalyzeConnectionsOutcome(connections, healthy))

\* C14: no private or reserved address is submitted to a threat-intel lookup:
\* every looked-up address lies outside 10.0.0.0/8, 172.16.0.0/12,
\* 192.168.0.0/16, 127.0.0.0/8 and 169.254.0.0/16.
C14_NoPrivateLookup ==
    \A i \in 1..Len(lookups) :
        LET ip == lookups[i] IN
        /\ ip[1] # 10
        /\ ~(ip[1] = 172 /\ ip[2] \in 16..31)
        /\ ~(ip[1] = 192 /\ ip[2] = 168)
        /\ ip[1] # 127
        /\ ~(ip[1] = 169 /\ ip[2] = 254)

\* C15: private-destination exclusion.  When every destination of an analysed
\* list is an RFC1918 address, the threat-intel step looks up no address
\* (checked = 0) and returns no match, whatever the source addresses and the
\* custom rules.
C15_PrivateDestinationsNoLookup ==
    ( /\ result.status # "none"
      /\ Len(connections) >= 2
      /\ \A i \in 1..Len(connections) :
            LET ip == connections[i].dest_ip IN
            \/ ip[1] = 10
            \/ (ip[1] = 172 /\ ip[2] \in 16..31)
            \/ (ip[1] = 192 /\ ip[2] = 168) )
    => /\ lookups = <<>>
       /\ matches = <<>>
       /\ (engine = "analyzeData" /\ result.status = "ok") => result.threatIntel.checked = 0

\* C16: lookup cap.  The number of addresses looked up in one analysis is the
\* smaller of config.maxIPs and the number of distinct addresses the resolver
\* finds eligible (v2.1.1: public destination and source addresses; v2.1:
\* destination addresses its isPrivateIP lets through); the addresses beyond
\* the cap raise no error, and the reported checked count is the number of
\* lookups.
C16_LookupCap ==
    LET dests == {connections[i].dest_ip : i \in 1..Len(connections)}
        srcs == {connections[i].src_ip :
                    i \in {k \in 1..Len(connections) : "src_ip" \in DOMAIN connections[k]}}
        reserved(ip) == \/ ip[1] \in {10, 127}
                        \/ (ip[1] = 172 /\ ip[2] \in 16..31)
                        \/ (ip[1] = 192 /\ ip[2] = 168)
        eligible == IF engine = "analyzeData"
                    THEN {ip \in dests \cup srcs : ~reserved(ip) /\ ~(ip[1] = 169 /\ ip[2] = 254)}
                    ELSE {ip \in dests : ~reserved(ip)}
        n == Cardinality(eligible) IN
    (result.status # "none" /\ Len(connections) >= 2)
    => /\ Len(lookups) = IF n < intel.maxIPs THEN n ELSE intel.maxIPs
       /\ Len(lookups) <= intel.maxIPs
       /\ engine = "analyzeData" =>
             result.status = "ok" /\ result.threatIntel.checked = Len(lookups)

\* A finished analysis of more eligible addresses than config.maxIPs.
C16_Witness ==
    /\ engine = "analyzeData"
    /\ result.status = "ok"
    /\ intel.maxIPs = 1
    /\ Cardinality({connections[i].dest_ip : i \in 1..Len(connections)}
                   \cap {PublicIP, SecondPublicIP}) = 2
    /\ Len(lookups) = 1

(***************************************************************************)
(* Properties of the custom-rule runs                                      *)
(***************************************************************************)

\* C17: an address checked against a CIDR rule network/p, p in 0..32, matches
\* the rule iff the leading p bits of the address and of the network are
\* equal; a /0 rule matches every address.
C17_CidrContainment ==
    LET LeadingBitsEqual(a, b, p) ==
            \A i \in 1..4 :
                IF 8 * i <= p THEN a[i] = b[i]
                ELSE IF 8 * (i - 1) < p
                     THEN a[i] \div (2 ^ (8 * i - p)) = b[i] \div (2 ^ (8 * i - p))
                     ELSE TRUE IN
    (/\ lookups # <<>>
     /\ intel.customRules # <<>>
     /\ intel.customRules[1].type = "cidr")
    => ((matches # <<>>)
        <=> LeadingBitsEqual(lookups[1], intel.customRules[1].value.range,
                             intel.customRules[1].value.bits))

(***************************************************************************)
(* Properties of the history runs                                          *)
(***************************************************************************)

\* C18: after any sequence of history operations (add, import, delete,
\* clear, load) neither the history nor the stored list holds more than
\* maxHistorySize entries.
C18_HistoryCap ==
    /\ Len(history) <= MaxHistorySize
    /\ Len(storage) <= MaxHistorySize

(***************************************************************************)
(* Scenarios of the scoring runs                                           *)
(***************************************************************************)

\* C19: Scenario A.  A feature vector of at least 50 connections to a single
\* destination with mean interval 58-62 s, jitter below 0.08 and payload
\* consistency above 0.90 is scored 80 or more and classified CRITICAL, and
\* Cobalt Strike is among the identified frameworks with high confidence.
\* (v2.0: result.identifiedFrameworks; v2.1.1: features.frameworkSignatures,
\* which the result carries as result.features.)  The matches are in the
\* shape the engine reads.
C19_ScenarioA ==
    /\ (/\ engine = "detect"
        /\ result.status # "none"
        /\ \A i \in 1..Len(matches) : Has(matches[i], "malware")
        /\ features.connection_count >= 50
        /\ features.unique_dest_ips = 1
        /\ features.mean_interval >= 58000 /\ features.mean_interval <= 62000
        /\ features.jitter < 80
        /\ features.bytes_consistency > 900)
       => /\ result.status = "ok"
          /\ result.score >= 80
          /\ result.classification = "CRITICAL"
          /\ \E k \in 1..Len(result.identifiedFrameworks) :
                /\ result.identifiedFrameworks[k].name = "Cobalt Strike"
                /\ result.identifiedFrameworks[k].confidence = "High"
    /\ (/\ engine = "analyze"
        /\ result.status # "none"
        /\ features.connectionCount >= 50
        /\ features.uniqueDestinations = 1
        /\ features.meanInterval >= 58000 /\ features.meanInterval <= 62000
        /\ features.jitter < 80
        /\ features.payloadConsistency > 900)
       => /\ result.status = "ok"
          /\ result.score >= 80
          /\ result.classification = "CRITICAL"
          /\ \E k \in 1..Len(features.frameworkSignatures) :
                /\ features.frameworkSignatures[k].framework = "Cobalt Strike"
                /\ features.frameworkSignatures[k].confidence = "high"

\* A finished Detector.detect run on a Scenario A vector without any
\* threat-intel match, under every benign indicator such a vector can set.
C19_Witness ==
    /\ engine = "detect"
    /\ result.status = "ok"
    /\ matches = <<>>
    /\ features.connection_count >= 50
    /\ features.unique_dest_ips = 1
    /\ features.mean_interval = 60000
    /\ features.jitter < 80
    /\ features.bytes_consistency > 900
    /\ features.time_diversity > 700
    /\ result.score >= 80

\* C20: Scenario C.  When the matches of a finished run hold a match of
\* confidence 90 (v2.1.1: from a custom rule), the score is at least 45 and
\* the classification is not BENIGN, whatever the feature vector.
C20_ScenarioC ==
    (/\ result.status # "none"
     /\ \E i \in 1..Len(matches) :
           IF engine = "analyze"
           THEN matches[i].source = "Custom Rules" /\ matches[i].confidence = 90
           ELSE Has(matches[i], "confidence_level") /\ matches[i].confidence_level = 90)
    => /\ result.status = "ok"
       /\ result.score >= 45
       /\ result.classification # "BENIGN"

(***************************************************************************)
(* Properties of the extraction runs                                       *)
(***************************************************************************)

\* C21: every ratio-type feature of an extracted vector lies in [0, 1]
\* (periodicity, payload consistency, port diversity, port concentration,
\* time diversity, night ratio) and every entropy is at least 0.
C21_FeatureBounds ==
    LET unit(x) == x # NaN /\ x >= 0 /\ x <= 1000 IN
    /\ (features # <<>> /\ engine = "docs")
       => unit(features.periodicity) /\ unit(features.bytes_consistency)
    /\ (features # <<>> /\ engine = "analyzeConnections")
       => /\ unit(features.periodicity) /\ unit(features.bytes_consistency)
          /\ unit(features.time_diversity) /\ unit(features.night_ratio)
          /\ features.entropy >= 0 /\ features.port_entropy >= 0
    /\ (features # <<>> /\ engine = "analyzeData")
       => /\ unit(features.periodicity) /\ unit(features.payloadConsistency)
          /\ unit(features.portDiversity) /\ unit(features.portConcentration)
          /\ features.timingEntropy >= 0

\* C22: no feature of an extracted vector is NaN, also when all timestamps
\* are identical or no record has a positive byte size.
C22_NoNaN ==
    features # <<>>
    => \A k \in DOMAIN features \ {"frameworkSignatures"} : features[k] # NaN

(***************************************************************************)
(* Properties of the ML calls: the ensemble                                *)
(***************************************************************************)

\* C23: in every prediction the beacon-classifier score, the anomaly score
\* and the ensemble score lie in [0, 1], the ensemble score is
\* 0.6 * beacon score + 0.4 * anomaly score, and the ensemble prediction is
\* 'malicious' exactly when that score is >= the confidence threshold 0.65.
C23_EnsembleThreshold ==
    \A i \in 1..Len(predictions) :
        LET out == predictions[i].output
            factors == out.anomaly_factors
            n == IF Len(factors) = 0 THEN 1 ELSE Len(factors)
            score == out.ensemble.ensemble_score IN
        /\ out.beacon_classifier.probability \in 0..1000
        /\ SumSeq(factors) >= 0 /\ SumSeq(factors) <= 1000 * n
        /\ score.num >= 0 /\ score.num <= 1000 * score.den
        /\ score.num * n
              = (6 * out.beacon_classifier.probability * n + 4 * SumSeq(factors)) * (score.den \div 10)
        /\ (out.ensemble.prediction = "malicious") <=> (score.num >= 650 * score.den)

(***************************************************************************)
(* Lookup runs: the feed lookups of one analysis after the other, request  *)
(* by request                                                              *)
(***************************************************************************)

\* config.cacheExpiry and config.timeout of the v2.1.1 resolver, and the pause
\* of checkConnections (v2.1) after each lookup, in milliseconds.
CacheExpiry == 3600000

LookupTimeout == 10000

LookupPause == 500

\* The clock readings followed, as distances from StartTime.
ClockOffsets == {0, 1, 500, 10000, 3600000, 3600001, 3610001}

\* The address lists whose lookups are followed.
LookupLists == {<<PublicIP>>, <<PublicIP, SecondPublicIP>>}

\* What the body of a 2xx answer holds.
BodyOutcomes == {"hit", "no_hit", "malformed"}

\* this.cache.get(cacheKey): <<>> is undefined.
CacheGet(c, ip) == IF ip \in DOMAIN c THEN c[ip] ELSE <<>>

\* A lookup that has settled with value v (<<>> is null).
SettledLookup(l, v, t) ==
    [l EXCEPT !.phase = "settled", !.value = v, !.timer = FALSE, !.settled = t]

\* lookupThreatFox up to its first await, with a cached value returned also
\* when its age is exactly cacheExpiry
StartLookupInclusive(ip, c, t) ==
    LET cached == CacheGet(c, ip) IN
    IF cached # <<>> /\ t - cached.timestamp <= CacheExpiry
    THEN [ip |-> ip, phase |-> "settled", started |-> t, request |-> FALSE,
          timer |-> FALSE, value |-> cached.data, settled |-> t]
    ELSE [ip |-> ip, phase |-> "headers", started |-> t, request |-> TRUE,
          timer |-> TRUE, value |-> <<>>, settled |-> 0]

\* lookupThreatFox (v2.1.1) up to its first await: a cached entry younger than
\* cacheExpiry is returned, otherwise the timer is armed and fetch is called.
StartLookup(ip, c, t) ==
    LET cached == CacheGet(c, ip) IN
    IF cached # <<>> /\ t - cached.timestamp < CacheExpiry
    THEN [ip |-> ip, phase |-> "settled", started |-> t, request |-> FALSE,
          timer |-> FALSE, value |-> cached.data, settled |-> t]
    ELSE [ip |-> ip, phase |-> "headers", started |-> t, request |-> TRUE,
          timer |-> TRUE, value |-> <<>>, settled |-> 0]

\* lookupThreatFox (v2.1) up to its await: fetch is called, without a signal.
StartLookupV21(ip, t) ==
    [ip |-> ip, phase |-> "headers", started |-> t, request |-> TRUE,
     timer |-> FALSE, value |-> <<>>, settled |-> 0]

\* A lookup checkConnections (v2.1) has not reached yet.
WaitingLookup(ip) ==
    [ip |-> ip, phase |-> "waiting", started |-> 0, request |-> FALSE,
     timer |-> FALSE, value |-> <<>>, settled |-> 0]

InitLookup ==
    /\ engine \in {"analyzeConnections", "analyzeData"}
    /\ features = <<>>
    /\ matches = <<>>
    /\ result = NoResult
    /\ normalization = DefaultNormalization
    /\ predictions = <<>>
    /\ connections = <<>>
    /\ intel = NoIntel
    /\ history = <<>>
    /\ lookups = <<>>
    /\ storage = <<>>
    /\ now = StartTime
    /\ NoAsync

\* Detector.checkThreatIntel: ips.map(ip => ThreatIntel.lookupIP(ip)) starts
\* every lookup before the first answer is awaited.
\* ThreatIntel.checkConnections (v2.1): the loop starts the first lookup.
\* A run starts when the run before it has returned.
StartLookups ==
    /\ pending = <<>> \/ result # NoResult
    /\ \E o \in ClockOffsets : StartTime + o >= now + LookupTimeout
    /\ \E ips \in LookupLists :
          /\ lookups' = ips
          /\ pending' = [k \in 1..Len(ips) |->
                            IF engine = "analyzeData" THEN StartLookup(ips[k], cache, now)
                            ELSE IF k = 1 THEN StartLookupV21(ips[k], now)
                            ELSE WaitingLookup(ips[k])]
    /\ matches' = <<>>
    /\ result' = NoResult
    /\ UNCHANGED <<engine, features, connections, intel, history, storage, now, cache,
                   answers, runVars, mlVars>>

\* The response of the feed arrives: fetch resolves.  The v2.1.1 resolver
\* clears its timer here; a non-2xx status settles the lookup with null.
HeadersArrive ==
    /\ \E k \in DOMAIN pending : \E ok \in BOOLEAN :
          /\ pending[k].phase = "headers"
          /\ pending[k].timer => now - pending[k].started <= LookupTimeout
          /\ pending' = [pending EXCEPT ![k] =
                            IF ok THEN [@ EXCEPT !.phase = "body", !.timer = FALSE]
                            ELSE SettledLookup(@, <<>>, now)]
    /\ UNCHANGED <<scoreVars, mlVars, inputVars, cache, answers, runVars>>

\* response.json() settles: the lookup returns the listed IOC or null, and
\* the v2.1.1 resolver caches what a well-formed answer said.
BodyArrives ==
    /\ \E k \in DOMAIN pending : \E body \in BodyOutcomes :
          LET ip == pending[k].ip
              v == IF engine = "analyzeData" THEN LookupThreatFox(ip, body)
                   ELSE LookupThreatFoxV21(body) IN
          /\ pending[k].phase = "body"
          /\ pending' = [pending EXCEPT ![k] = SettledLookup(@, v, now)]
          /\ cache' = IF engine = "analyzeData" /\ body # "malformed"
                      THEN (ip :> [data |-> v, timestamp |-> now]) @@ cache
                      ELSE cache
          /\ answers' = IF body # "malformed"
                        THEN (ip :> [data |-> v, at |-> now]) @@ answers
                        ELSE answers
    /\ UNCHANGED <<scoreVars, mlVars, inputVars, runVars>>

\* setTimeout(() => controller.abort(), config.timeout) fires: fetch rejects
\* and the catch block returns null.
LookupTimesOut ==
    /\ \E k \in DOMAIN pending :
          /\ pending[k].timer
          /\ now - pending[k].started >= LookupTimeout
          /\ pending' = [pending EXCEPT ![k] = SettledLookup(@, <<>>, now)]
    /\ UNCHANGED <<scoreVars, mlVars, inputVars, cache, answers, runVars>>

\* checkConnections (v2.1): the lookup before has returned and the pause of
\* 500 ms is over, the loop calls lookupIPMultiSource for the next address.
NextLookup ==
    /\ \E k \in DOMAIN pending :
          /\ k > 1
          /\ pending[k].phase = "waiting"
          /\ pending[k - 1].phase = "settled"
          /\ now - pending[k - 1].settled >= LookupPause
          /\ pending' = [pending EXCEPT ![k] = StartLookupV21(pending[k].ip, now)]
    /\ UNCHANGED <<scoreVars, mlVars, inputVars, cache, answers, runVars>>

\* await Promise.all(lookupPromises) resumes, or the loop of checkConnections
\* ends: the matches of the lookups are returned.
ReturnMatches ==
    /\ pending # <<>>
    /\ result = NoResult
    /\ \A k \in DOMAIN pending : pending[k].phase = "settled"
    /\ matches' = Flat([k \in DOMAIN pending |-> pending[k].value])
    /\ result' = [status |-> "checked", checked |-> Len(pending)]
    /\ UNCHANGED <<engine, features, mlVars, inputVars, asyncVars>>

\* Time passes.
Tick ==
    /\ \E o \in ClockOffsets :
          /\ StartTime + o > now
          /\ now' = StartTime + o
    /\ UNCHANGED <<scoreVars, mlVars, connections, intel, history, lookups, storage,
                   asyncVars>>

NextLookups ==
    \/ StartLookups
    \/ HeadersArrive
    \/ BodyArrives
    \/ LookupTimesOut
    \/ NextLookup
    \/ ReturnMatches
    \/ Tick

SpecLookup == InitLookup /\ [][NextLookups]_vars

(***************************************************************************)
(* Properties of the lookup runs                                           *)
(***************************************************************************)

\* C24: once the feed has answered a lookup of an address with a hit or with
\* no hit at time t, a lookupThreatFox call for that address at t' returns
\* that answer without a request when t' - t < cacheExpiry, and issues a new
\* request when t' - t >= cacheExpiry (so no older value is ever returned).
C24_CacheTTL ==
    [][(/\ engine = "analyzeData"
        /\ pending = <<>> \/ result # NoResult
        /\ result' = NoResult
        /\ pending' # <<>>)
       => \A k \in DOMAIN pending' :
             LET call == pending'[k]
                 answer == CacheGet(answers, call.ip) IN
             answer # <<>>
             => IF now - answer.at < CacheExpiry
                THEN ~call.request /\ call.phase = "settled" /\ call.value = answer.data
                ELSE call.request /\ call.phase = "headers"]_vars

\* a call made cacheExpiry - 1 ms after the answer was served from the cache,
\* and a hit at that
C24_Witness ==
    /\ engine = "analyzeData"
    /\ \E k \in DOMAIN pending :
          /\ ~pending[k].request
          /\ pending[k].phase = "settled"
          /\ pending[k].value # <<>>
          /\ CacheGet(answers, pending[k].ip) # <<>>
          /\ pending[k].started - CacheGet(answers, pending[k].ip).at = CacheExpiry - 1

\* The event loop runs what is ready: a timer that is due fires, a loop
\* whose await has settled goes on, and time passes.  Nothing obliges the
\* server to answer, nor the user to start a run.
FairLookup ==
    /\ SpecLookup
    /\ WF_vars(LookupTimesOut)
    /\ WF_vars(NextLookup)
    /\ WF_vars(ReturnMatches)
    /\ WF_vars(Tick)

\* C25: every feed lookup that has been started settles, with a result or
\* with null, whatever the server does (no answer, headers and then a body
\* that stalls, a late answer): no lookup stays in flight for ever.
C25_LookupSettles ==
    \A k \in 1..2 :
        (k \in DOMAIN pending /\ pending[k].phase \in {"headers", "body"})
        ~> (k \in DOMAIN pending /\ pending[k].phase = "settled")

\* C26: the lookups of one analysis do not wait on one another (none is
\* still to be started while another is in flight), the matches are returned
\* only when every lookup has settled, and they hold the result of every
\* lookup that found something, also when other lookups failed.
C26_LookupIndependence ==
    /\ \A k \in DOMAIN pending :
          pending[k].phase = "waiting"
          => \A j \in DOMAIN pending : pending[j].phase \notin {"headers", "body"}
    /\ (pending # <<>> /\ result # NoResult)
       => /\ \A k \in DOMAIN pending : pending[k].phase = "settled"
          /\ \A k \in DOMAIN pending : \A i \in 1..Len(pending[k].value) :
                \E m \in 1..Len(matches) : matches[m] = pending[k].value[i]

(***************************************************************************)
(* Application runs: analyses started from the page, one possibly while    *)
(* another is still awaiting its file, its pauses or its lookups           *)
(***************************************************************************)

RunIds == {"first", "second"}

\* What a run is given: the file and the number of connections in it.
RunInputs == {[fileName |-> "a.json", connectionCount |-> 2],
              [fileName |-> "b.json", connectionCount |-> 3]}

\* C2DetectorApp.state / the globals of the v2.0 controller, with what the
\* page shows and the last report written.
NoAnalysis ==
    [currentAnalysis |-> <<>>, fileName |-> "", connections |-> 0, shown |-> <<>>,
     report |-> <<>>]

InFlight(r) == runs[r].pc \in {"reading", "awaiting"}

InitRuns ==
    /\ engine \in {"analyzeConnections", "analyzeData"}
    /\ features = <<>>
    /\ matches = <<>>
    /\ result = NoResult
    /\ normalization = DefaultNormalization
    /\ predictions = <<>>
    /\ connections = <<>>
    /\ intel = NoIntel
    /\ history = <<>>
    /\ lookups = <<>>
    /\ storage = <<>>
    /\ now = StartTime
    /\ cache = <<>>
    /\ pending = <<>>
    /\ answers = <<>>
    /\ app = NoAnalysis
    /\ runs = [r \in RunIds |-> [pc |-> "idle", input |-> <<>>]]
    /\ stack = <<>>

\* C2DetectorApp.handleFile: state.fileName is set, then the file is read.
HandleFile ==
    /\ engine = "analyzeData"
    /\ now < StartTime + MaxOperations
    /\ \E r \in RunIds : \E input \in RunInputs :
          /\ ~InFlight(r)
          /\ app' = [app EXCEPT !.fileName = input.fileName]
          /\ runs' = [runs EXCEPT ![r] = [pc |-> "reading", input |-> input]]
    /\ now' = now + 1
    /\ UNCHANGED <<scoreVars, mlVars, connections, intel, history, lookups, storage,
                   cache, pending, answers, stack>>

\* reader.onload: analyzeData validates, extracts and awaits Detector.analyze.
FileLoaded ==
    /\ \E r \in RunIds :
          /\ runs[r].pc = "reading"
          /\ runs' = [runs EXCEPT ![r].pc = "awaiting"]
    /\ app' = [app EXCEPT !.shown = <<>>]
    /\ UNCHANGED <<scoreVars, mlVars, inputVars, cache, pending, answers, stack>>

\* analyzeConnections(connections, fileName) of the v2.0 controller up to its
\* first await: the globals are set.
StartAnalyzeConnections ==
    /\ engine = "analyzeConnections"
    /\ now < StartTime + MaxOperations
    /\ \E r \in RunIds : \E input \in RunInputs :
          /\ ~InFlight(r)
          /\ app' = [app EXCEPT !.fileName = input.fileName,
                                !.connections = input.connectionCount]
          /\ runs' = [runs EXCEPT ![r] = [pc |-> "awaiting", input |-> input]]
    /\ now' = now + 1
    /\ UNCHANGED <<scoreVars, mlVars, connections, intel, history, lookups, storage,
                   cache, pending, answers, stack>>

\* The awaited detection of a run returns.  analyzeData stores the analysis
\* with this.state.fileName and its own connection count, adds it to the
\* history and shows it; analyzeConnections stores and shows the result.
AnalysisReturns ==
    /\ \E r \in RunIds :
          LET own == runs[r].input
              analysis == IF engine = "analyzeData"
                          THEN [input |-> own, fileName |-> app.fileName,
                                connectionCount |-> own.connectionCount]
                          ELSE [input |-> own] IN
          /\ runs[r].pc = "awaiting"
          /\ runs' = [runs EXCEPT ![r].pc = "done"]
          /\ app' = [app EXCEPT !.currentAnalysis = analysis, !.shown = analysis]
          /\ history' = IF engine = "analyzeData" THEN <<analysis>> \o history ELSE history
    /\ UNCHANGED <<scoreVars, mlVars, connections, intel, lookups, storage, now,
                   cache, pending, answers, stack>>

\* downloadReport: the current analysis is exported with the current file
\* name (and, in the v2.0 controller, the current connections).
DownloadReport ==
    /\ app.currentAnalysis # <<>>
    /\ app' = [app EXCEPT !.report = [analysis |-> app.currentAnalysis,
                                      fileName |-> app.fileName,
                                      connections |-> app.connections]]
    /\ UNCHANGED <<scoreVars, mlVars, inputVars, cache, pending, answers, runs, stack>>

NextRuns ==
    \/ HandleFile
    \/ FileLoaded
    \/ StartAnalyzeConnections
    \/ AnalysisReturns
    \/ DownloadReport

SpecRuns == InitRuns /\ [][NextRuns]_vars

(***************************************************************************)
(* Properties of the application runs                                      *)
(***************************************************************************)

\* C27: every analysis that is stored, shown, saved to the history or
\* exported carries the file name and the connections of the run that
\* produced it, also when another run was started while it was in flight.
\* An export is judged when no run is in flight and it is the export of the
\* present state, so that a report written after the next run was started is
\* not counted against runs that did not overlap.
C27_RunIsolation ==
    LET own(a) == /\ "fileName" \in DOMAIN a => a.fileName = a.input.fileName
                  /\ "connectionCount" \in DOMAIN a
                        => a.connectionCount = a.input.connectionCount IN
    /\ app.currentAnalysis # <<>> => own(app.currentAnalysis)
    /\ app.shown # <<>> => own(app.shown)
    /\ \A i \in 1..Len(history) : own(history[i])
    /\ (/\ \A r \in RunIds : ~InFlight(r)
        /\ app.report # <<>>
        /\ app.report = [analysis |-> app.currentAnalysis, fileName |-> app.fileName,
                         connections |-> app.connections])
       => /\ app.report.fileName = app.report.analysis.input.fileName
          /\ engine = "analyzeConnections"
                => app.report.connections = app.report.analysis.input.connectionCount

(***************************************************************************)
(* Properties of the analyses with threat intelligence: the match shape    *)
(***************************************************************************)

\* C28: every match the resolver hands to the detection engine carries ip,
\* source, a malware label and a confidence in 0..100 under the name the
\* engine reads (confidence_level in Detector.detect, confidence in
\* Detector.analyze), and an analysis with a match ends with a result.
C28_MatchShape ==
    LET key == IF engine = "analyzeConnections" THEN "confidence_level" ELSE "confidence" IN
    (result # NoResult /\ Len(matches) > 0)
    => /\ \A i \in 1..Len(matches) :
             /\ Has(matches[i], "ip")
             /\ Has(matches[i], "source")
             /\ Has(matches[i], "malware")
             /\ Has(matches[i], key)
             /\ matches[i][key] \in 0..100
       /\ result.status # "error"

(***************************************************************************)
(* Properties of the custom-rule runs: the rule store                      *)
(***************************************************************************)

\* C29: the rule set changes only in addCustomRule, removeCustomRule,
\* updateCustomRule and importRules; a lookup leaves the set and the stored
\* rules as they are; a call that is rejected leaves both as they are; and
\* after every call of the four that returns, the stored rules are the rule
\* set in memory.
C29_RuleStoreConsistent ==
    [][LET lookup == lookups' # lookups
           returned == ~lookup /\ result'.status = "returned"
           rejected == ~lookup /\ result'.status = "thrown" IN
       /\ intel'.customRules # intel.customRules
             => returned /\ result'.op \in {"addCustomRule", "removeCustomRule",
                                            "updateCustomRule", "importRules"}
       /\ lookup => intel'.customRules = intel.customRules /\ storage' = storage
       /\ rejected => intel'.customRules = intel.customRules /\ storage' = storage
       /\ returned => storage' = intel'.customRules]_vars

(***************************************************************************)
(* Save runs: HistoryManager.addAnalysis (v2.1.1) with saveHistory         *)
(* followed call by call                                                   *)
(***************************************************************************)

\* The saveHistory calls that fit on the call stack of the engine.
MaxStack == 4

\* this.history.slice(0, n)
Slice(h, n) == IF Len(h) > n THEN SubSeq(h, 1, n) ELSE h

\* The stack without its innermost call; addAnalysis returns the id when the
\* outermost saveHistory has returned.
ReturnFrom(frames, res) ==
    IF Len(frames) = 1 THEN [res EXCEPT !.status = "returned"] ELSE res

InitSave ==
    /\ engine = "analyzeData"
    /\ history \in {<<>>, EntriesDown(60, 1), EntriesDown(MaxHistorySize, 1)}
    /\ storage = history
    /\ features = <<>>
    /\ matches = <<>>
    /\ result = NoResult
    /\ normalization = DefaultNormalization
    /\ predictions = <<>>
    /\ connections = <<>>
    /\ intel = NoIntel
    /\ lookups = <<>>
    /\ now = StartTime
    /\ NoAsync

\* HistoryManager.addAnalysis(analysis): the entry gets its id, is put at the
\* head of the history, and saveHistory is called.
CallAddAnalysis ==
    /\ stack = <<>>
    /\ result.status # "thrown"
    /\ now < StartTime + MaxOperations
    /\ history' = <<[id |-> now, timestamp |-> now]>> \o history
    /\ stack' = <<"try">>
    /\ result' = [status |-> "saving", id |-> now]
    /\ now' = now + 1
    /\ UNCHANGED <<engine, features, matches, mlVars, connections, intel, lookups, storage,
                   cache, pending, answers, app, runs>>

\* The innermost saveHistory cuts the history to maxHistorySize, setItem
\* stores it, and the call returns.
SetItemStores ==
    /\ stack # <<>>
    /\ stack[Len(stack)] = "try"
    /\ history' = Slice(history, MaxHistorySize)
    /\ storage' = history'
    /\ stack' = SubSeq(stack, 1, Len(stack) - 1)
    /\ result' = ReturnFrom(stack, result)
    /\ UNCHANGED <<engine, features, matches, mlVars, connections, intel, lookups, now,
                   cache, pending, answers, app, runs>>

\* setItem throws.  An error other than QuotaExceededError is logged and the
\* call returns; so does a RangeError raised inside the try block when the
\* stack is full.  On QuotaExceededError the history is cut to 50 entries and
\* saveHistory calls itself; when the stack is full this call raises a
\* RangeError that no frame catches.
SetItemThrows ==
    /\ stack # <<>>
    /\ stack[Len(stack)] = "try"
    /\ \E name \in {"QuotaExceededError", "SecurityError", "RangeError"} :
          /\ name = "RangeError" => Len(stack) = MaxStack
          /\ IF name = "QuotaExceededError"
             THEN /\ history' = Slice(Slice(history, MaxHistorySize), 50)
                  /\ IF Len(stack) < MaxStack
                     THEN /\ stack' = [stack EXCEPT ![Len(stack)] = "catch"] \o <<"try">>
                          /\ result' = result
                     ELSE /\ stack' = <<>>
                          /\ result' = [result EXCEPT !.status = "thrown"]
             ELSE /\ history' = Slice(history, MaxHistorySize)
                  /\ stack' = SubSeq(stack, 1, Len(stack) - 1)
                  /\ result' = ReturnFrom(stack, result)
    /\ UNCHANGED <<engine, features, matches, mlVars, connections, intel, lookups, storage,
                   now, cache, pending, answers, app, runs>>

\* The saveHistory called from a catch block has returned: so does the caller.
SaveHistoryReturns ==
    /\ stack # <<>>
    /\ stack[Len(stack)] = "catch"
    /\ stack' = SubSeq(stack, 1, Len(stack) - 1)
    /\ result' = ReturnFrom(stack, result)
    /\ UNCHANGED <<engine, features, matches, mlVars, inputVars, cache, pending, answers,
                   app, runs>>

NextSave ==
    \/ CallAddAnalysis
    \/ SetItemStores
    \/ SetItemThrows
    \/ SaveHistoryReturns

SpecSave == InitSave /\ [][NextSave]_vars

(***************************************************************************)
(* Properties of the save runs                                             *)
(***************************************************************************)

\* C30: whatever the storage does, the calls of saveHistory to itself end
\* before the call stack is used up, and addAnalysis returns the id of the
\* new entry (it never ends in an error).
C30_SaveHistoryTerminates ==
    /\ Len(stack) < MaxStack
    /\ result.status # "thrown"
====
